---- MODULE Spec2Model ----
(***************************************************************************)
(* The scoped web crawler of src/crawler.js (the primary sequential        *)
(* crawler, lines 1-174) over the document store of src/db.js.             *)
(*                                                                         *)
(* A URL string is a sequence of tokens: "https:" "//" host, then "/" and  *)
(* segment tokens, then optionally "#" and a fragment.  Every "/" is a     *)
(* token of its own, so endsWith("/"), slice(0, -1) and startsWith(root)   *)
(* are computed on the string as the code computes them.                   *)
(***************************************************************************)
EXTENDS Integers, Sequences, FiniteSets, Bags, TLC

(***************************************************************************)
(* Strings                                                                 *)
(***************************************************************************)
Host == "people.scs.carleton.ca"
Owner == "~avamckenney"
Schemes == {"http:", "https:"}

StartsWith(s, prefix) ==
  /\ Len(s) >= Len(prefix)
  /\ SubSeq(s, 1, Len(prefix)) = prefix

EndsWith(s, tok) == Len(s) > 0 /\ s[Len(s)] = tok

\* Index of the first occurrence of tok in s, or 0.
IndexOf(s, tok) ==
  IF \E i \in 1..Len(s) : s[i] = tok
    THEN CHOOSE i \in 1..Len(s) : s[i] = tok /\ \A j \in 1..(i - 1) : s[j] # tok
    ELSE 0

\* Index of the last occurrence of tok in s, or 0.
LastIndexOf(s, tok) ==
  IF \E i \in 1..Len(s) : s[i] = tok
    THEN CHOOSE i \in 1..Len(s) : s[i] = tok /\ \A j \in (i + 1)..Len(s) : s[j] # tok
    ELSE 0

(***************************************************************************)
(* The WHATWG URL class, as far as the crawler uses it: new URL(u),        *)
(* new URL(href, base), the hash and protocol setters, origin, toString.   *)
(***************************************************************************)
\* new URL(u) does not throw: a special scheme, "//" and a non-empty host.
IsAbsolute(u) ==
  /\ Len(u) >= 3
  /\ u[1] \in Schemes
  /\ u[2] = "//"
  /\ u[3] \notin {"/", "#", "//"}

\* A string that starts with a scheme is never resolved against the base.
HasScheme(u) == Len(u) >= 1 /\ u[1] \in Schemes

ParseUrl(u) ==
  LET h == IndexOf(u, "#")
      beforeHash == IF h = 0 THEN u ELSE SubSeq(u, 1, h - 1)
      rawPath == SubSeq(beforeHash, 4, Len(beforeHash))
  IN [protocol |-> u[1],
      host |-> u[3],
      pathname |-> IF rawPath = <<>> THEN <<"/">> ELSE rawPath,
      hash |-> IF h = 0 THEN <<>> ELSE SubSeq(u, h + 1, Len(u))]

UrlToString(url) ==
  <<url.protocol, "//", url.host>> \o url.pathname
    \o (IF url.hash = <<>> THEN <<>> ELSE <<"#">> \o url.hash)

UrlOrigin(url) == <<url.protocol, "//", url.host>>

\* new URL(href, base) does not throw (base is always a valid absolute URL).
CanResolve(href, base) == HasScheme(href) => IsAbsolute(href)

\* new URL(href, base): an absolute href stands alone; "/..." replaces the
\* path; "#..." replaces the fragment; anything else replaces the last
\* segment of the base path.
ResolveUrl(href, base) ==
  LET b == ParseUrl(base)
      h == IndexOf(href, "#")
      hrefPath == IF h = 0 THEN href ELSE SubSeq(href, 1, h - 1)
      hrefHash == IF h = 0 THEN <<>> ELSE SubSeq(href, h + 1, Len(href))
      baseDir == SubSeq(b.pathname, 1, LastIndexOf(b.pathname, "/"))
  IN IF HasScheme(href) THEN ParseUrl(href)
     ELSE IF hrefPath = <<>> THEN [b EXCEPT !.hash = hrefHash]
     ELSE IF hrefPath[1] = "/"
       THEN [b EXCEPT !.pathname = hrefPath, !.hash = hrefHash]
     ELSE [b EXCEPT !.pathname = baseDir \o hrefPath, !.hash = hrefHash]

(***************************************************************************)
(* src/crawler.js, lines 7-38                                              *)
(***************************************************************************)
SeedOf(name) ==
  <<"https:", "//", Host, "/", Owner, "/", name, "/", "N-0.html">>

DATASETS ==
  [name \in {"tinyfruits", "fruits100", "fruitsA", "fruitgraph"} |-> SeedOf(name)]

\* Strips the last token only when it is "/": one slash, not all of them.
StripOneSlash(s) == IF EndsWith(s, "/") THEN SubSeq(s, 1, Len(s) - 1) ELSE s

normalizeUrl(u) ==
  LET url == [ParseUrl(u) EXCEPT !.hash = <<>>, !.protocol = "https:"]
  IN StripOneSlash(UrlToString(url))

siteRootFromSeed(seed) == UrlOrigin(ParseUrl(seed)) \o <<"/", Owner, "/">>

RECURSIVE Dedup(_)
\* [...new Set(links)]: first occurrences, in order.
Dedup(s) ==
  IF s = <<>> THEN <<>>
  ELSE LET front == Dedup(SubSeq(s, 1, Len(s) - 1))
           last == s[Len(s)]
       IN IF \E i \in 1..Len(front) : front[i] = last
            THEN front ELSE Append(front, last)

Range(s) == {s[i] : i \in 1..Len(s)}

\* html is a sequence of anchors, each given by its href attribute (<<>> is
\* an anchor whose href is empty, which line 33 skips).  The result is
\* [ok |-> FALSE] when new URL(href, baseUrl) throws for some anchor.
Anchors(html) == SelectSeq(html, LAMBDA href : href # <<>>)

\* Variant: an href that new URL throws on is skipped and the extraction
\* goes on, as extractLinksFromCheerio of the worker-pool crawler does.
extractLinksSkipping(html, baseUrl) ==
  LET hrefs == SelectSeq(Anchors(html), LAMBDA href : CanResolve(href, baseUrl))
      links == [i \in 1..Len(hrefs) |->
                  normalizeUrl(UrlToString(ResolveUrl(hrefs[i], baseUrl)))]
  IN [ok |-> TRUE, links |-> Dedup(links)]

extractLinks(html, baseUrl) ==
  LET hrefs == Anchors(html)
      links == [i \in 1..Len(hrefs) |->
                  normalizeUrl(UrlToString(ResolveUrl(hrefs[i], baseUrl)))]
  IN IF \A i \in 1..Len(hrefs) : CanResolve(hrefs[i], baseUrl)
       THEN [ok |-> TRUE, links |-> Dedup(links)]
       ELSE [ok |-> FALSE, links |-> <<>>]

(***************************************************************************)
(* The document store: the pages and links collections of src/db.js, each  *)
(* a bag of documents, and the unique indexes that exist on them.          *)
(***************************************************************************)
Null == [isNull |-> TRUE, text |-> <<>>]
Text(t) == [isNull |-> FALSE, text |-> t]
\* JavaScript truthiness of an html field: neither null nor "".
Truthy(html) == ~html.isNull /\ html.text # <<>>

Absent == "(absent)"
NotFound == [found |-> FALSE, status |-> 0, html |-> Null]

PagesIndex == "pages(dataset,url)"
LinksIndex == "links(dataset,from,to)"

\* Fault: the indexes are created without { unique: true }.
ensureIndexesNotUnique(idx) == idx

\* createIndex(..., { unique: true }) on both collections.
ensureIndexes(idx) == idx \cup {PagesIndex, LinksIndex}

\* Fault: the filter names the url only.
PageMatchesUrlOnly(doc, d, u) == doc.url = u

\* The filter { dataset, url: norm } of lines 71 and 81.
PageMatches(doc, d, u) == doc.dataset = d /\ doc.url = u

findOne(pg, d, u) ==
  IF \E doc \in BagToSet(pg) : PageMatches(doc, d, u)
    THEN LET doc == CHOOSE doc \in BagToSet(pg) : PageMatches(doc, d, u)
         IN [found |-> TRUE, status |-> doc.status, html |-> doc.html]
    ELSE NotFound

deleteOne(pg, d, u) ==
  IF \E doc \in BagToSet(pg) : PageMatches(doc, d, u)
    THEN pg (-) SetToBag({CHOOSE doc \in BagToSet(pg) : PageMatches(doc, d, u)})
    ELSE pg

deleteMany(lk, d, from) ==
  LET keep == {e \in BagToSet(lk) : ~(e.dataset = d /\ e.from = from)}
  IN [e \in keep |-> lk[e]]

\* A duplicate-key error (code 11000) when the unique index exists and a
\* document with the same (dataset, url) is stored.
PageDuplicate(pg, idx, doc) ==
  /\ PagesIndex \in idx
  /\ \E old \in BagToSet(pg) : PageMatches(old, doc.dataset, doc.url)

\* The pages collection after insertOne(doc): a duplicate is not stored.
insertOne(pg, idx, doc) ==
  IF PageDuplicate(pg, idx, doc) THEN pg ELSE pg (+) SetToBag({doc})

\* The links collection after insertMany(edges, { ordered: false }): every
\* edge that is no duplicate under the unique index is inserted.
insertMany(lk, idx, edges) ==
  LET fresh == {e \in Range(edges) : ~(LinksIndex \in idx /\ BagIn(e, lk))}
  IN lk (+) SetToBag(fresh)

\* What a rejected insert rejects with; the message is a sequence of words.
NoError == [code |-> 0, message |-> <<>>]
DuplicateKeyError ==
  [code |-> 11000, message |-> <<"E11000", "duplicate", "key", "error", "collection">>]

insertOneError(pg, idx, doc) ==
  IF PageDuplicate(pg, idx, doc) THEN DuplicateKeyError ELSE NoError

\* The bulk write error carries the code and message of its first write error.
insertManyError(lk, idx, edges) ==
  IF \E e \in Range(edges) : LinksIndex \in idx /\ BagIn(e, lk)
    THEN DuplicateKeyError ELSE NoError

\* Fault: the test for a word in the message never matches.
IncludesNever(message, word) == FALSE

Includes(message, word) == \E i \in 1..Len(message) : message[i] = word

\* Fault: the catch throws every error again.
RethrowsEvery(err) == err # NoError

\* Fault: the catch swallows every error.
RethrowsNone(err) == FALSE

\* Lines 107-109 and 127-129: if (err?.code !== 11000) throw err.
RethrowsPageError(err) == err # NoError /\ err.code # 11000

\* Lines 139-141: if (!String(err?.message || "").includes("E11000")) throw err.
RethrowsBulkError(err) == err # NoError /\ ~Includes(err.message, "E11000")

(***************************************************************************)
(* The web the crawler runs against: what each URL serves when its fetch   *)
(* succeeds.  A URL that no web serves answers with an error.              *)
(***************************************************************************)
Abs(path) == <<"https:", "//", Host>> \o path
InSet(name, file) == Abs(<<"/", Owner, "/", name, "/", file>>)

P0 == InSet("tinyfruits", "N-0.html")
P1 == InSet("tinyfruits", "N-1.html")
P2 == InSet("tinyfruits", "N-2.html")
PDir == Abs(<<"/", Owner, "/", "tinyfruits">>)
F0 == InSet("fruits100", "N-0.html")

hN0 == <<"N-0.html">>
hN1 == <<"N-1.html">>
hN2 == <<"N-2.html">>
hN1frag == <<"N-1.html", "#", "top">>
hN1http == <<"http:", "//", Host, "/", Owner, "/", "tinyfruits", "/", "N-1.html">>
hSeedSlash == P0 \o <<"/">>
hDir2 == PDir \o <<"/", "/">>
hRoot2 == Abs(<<"/", Owner, "/", "/">>)
hExt == <<"https:", "//", "external.example", "/", "x">>
hOther == Abs(<<"/", "other", "/", "page.html">>)
hF0 == <<"/", Owner, "/", "fruits100", "/", "N-0.html">>
hBad == <<"http:", "//">>
hNone == <<>>

WebScenario == (P0 :> <<hN1, hExt>>) @@ (P1 :> <<hNone>>)
WebCycle == (P0 :> <<hN0, hN1frag, hN1http>>) @@ (P1 :> <<hN0, hN1>>)
WebDiamond ==
  (P0 :> <<hN1, hN2>>) @@ (P1 :> <<hN2, hOther>>) @@ (P2 :> <<hN1>>)
WebSlashes == (P0 :> <<hDir2, hRoot2>>) @@ (PDir :> <<hSeedSlash>>)
WebBadHref == (P0 :> <<hN1>>) @@ (P1 :> <<hBad, hN0>>)
WebEmptyBody == (P0 :> <<hN1>>) @@ (P1 :> <<>>)
WebCross == (P0 :> <<hF0, hN1>>) @@ (F0 :> <<hSeedSlash, hExt>>) @@ (P1 :> <<hNone>>)

Webs ==
  {WebScenario, WebCycle, WebDiamond, WebSlashes, WebBadHref, WebEmptyBody, WebCross}

\* The datasets a run is started with.
RunDatasets == {"tinyfruits", "fruits100"}

\* Crawl runs are started at most this many times.
MaxRuns == 2

Procs == {"r1", "r2"}

(***************************************************************************)
(* State                                                                   *)
(***************************************************************************)
VARIABLES
  web,       \* what each URL serves
  pages,     \* the pages collection
  links,     \* the links collection
  indexes,   \* the unique indexes that exist
  clock,     \* new Date(): the number of runs started so far
  pc,        \* where each run of crawlDataset stands
  dataset,   \* crawlDataset's argument
  queue,     \* const queue = [seed]
  seen,      \* const seen = new Set()
  cur,       \* the locals of one loop iteration: norm, existing, status, ...
  fetched,   \* history: the URLs axios.get was called with, per run
  failed,    \* history: the URLs whose axios.get threw, per run
  pushed,    \* history: the <<from, link>> pairs pushed on the queue, per run
  pushLog,   \* history: every queue entry of the run and the page it came from
  dequeues,  \* history: the number of queue.shift() calls, per run
  pages0,    \* history: the pages collection when the run started
  links0,    \* history: the links collection when the run started
  exitStatus, \* the status the process of the run exited with, if it has
  argv,       \* process.argv[2] of the process
  todo,       \* the dataset names main still has to crawl, the current one first
  connects,   \* the number of client.connect() calls that succeeded in the process
  returned,   \* the dataset names whose crawlDataset call has returned in the process
  usage,      \* whether the process has printed the usage line
  db,         \* db.js: the handle in `db` of the process, 0 while it is undefined
  dbCalls,    \* db.js: the calls made by a client of the module and how they ended
  stock,      \* catalog: the stock field of each product
  orders,     \* catalog: the order documents, in the order they were created
  req,        \* catalog: each POST /orders request: its body, its position, its response
  inflight,   \* worker pool: the URLs whose request is pending, a bag
  callbacks,  \* worker pool: the callbacks suspended at an await, a bag
  poolLog,    \* worker pool: what the callbacks of the run did, a bag of [op, url]
  normInput,  \* the argument normalizeUrl is called with first
  normResults \* what normalizeUrl returned, each call on the result before

vars ==
  <<web, pages, links, indexes, clock, pc, dataset, queue, seen, cur,
    fetched, failed, pushed, pushLog, dequeues, pages0, links0, exitStatus,
    argv, todo, connects, returned, usage, db, dbCalls, stock, orders, req,
    inflight, callbacks, poolLog,
    normInput, normResults>>

store == <<pages, links, indexes>>
history == <<fetched, failed, pushed, pushLog, dequeues, pages0, links0>>
pureVars == <<normInput, normResults>>
mainVars == <<argv, todo, connects, returned, usage>>
poolVars == <<inflight, callbacks, poolLog>>
dbVars == <<db, dbCalls>>
shopVars == <<stock, orders, req>>

\* The process has not exited: exitStatus is {} until process.exit(n)
\* makes it {n}.
NoExit == {}

NoCur ==
  [norm |-> <<>>, existing |-> NotFound, status |-> 0, html |-> Null,
   outLinks |-> <<>>, withinSite |-> <<>>, error |-> Absent]

\* process.argv[2] is undefined.
NoArg == "(undefined)"

\* The products of the catalog and the requests the service takes at a time.
Products == {"pa", "pb"}
Requests == {"q1", "q2"}

NoBody == [customerName |-> "", items |-> <<>>]
NoStatus == 0

\* A request that has not arrived.
NoRequest ==
  [pc |-> "free", body |-> NoBody, normalized |-> <<>>, parsed |-> <<>>, i |-> 0, status |-> NoStatus,
   taken |-> [product \in Products |-> 0]]

\* The catalog has taken no request and holds no order.
NoRequests ==
  /\ orders = <<>>
  /\ req = [r \in Requests |-> NoRequest]

\* No process has been started.
NothingRuns ==
  /\ web \in Webs
  /\ pages = EmptyBag
  /\ links = EmptyBag
  /\ indexes = {}
  /\ clock = 0
  /\ pc = [p \in Procs |-> "idle"]
  /\ dataset = [p \in Procs |-> "tinyfruits"]
  /\ queue = [p \in Procs |-> <<>>]
  /\ seen = [p \in Procs |-> {}]
  /\ cur = [p \in Procs |-> NoCur]
  /\ fetched = [p \in Procs |-> <<>>]
  /\ failed = [p \in Procs |-> {}]
  /\ pushed = [p \in Procs |-> {}]
  /\ pushLog = [p \in Procs |-> <<>>]
  /\ dequeues = [p \in Procs |-> 0]
  /\ pages0 = [p \in Procs |-> EmptyBag]
  /\ links0 = [p \in Procs |-> EmptyBag]
  /\ exitStatus = [p \in Procs |-> NoExit]
  /\ argv = [p \in Procs |-> NoArg]
  /\ todo = [p \in Procs |-> <<>>]
  /\ connects = [p \in Procs |-> 0]
  /\ returned = [p \in Procs |-> <<>>]
  /\ usage = [p \in Procs |-> FALSE]
  /\ db = [p \in Procs |-> 0]
  /\ dbCalls = [p \in Procs |-> <<>>]
  /\ inflight = EmptyBag
  /\ callbacks = EmptyBag
  /\ poolLog = EmptyBag

Init ==
  /\ NothingRuns
  /\ NoRequests
  /\ stock = [product \in Products |-> 0]
  /\ normInput = DATASETS["tinyfruits"]
  /\ normResults = <<>>

siteRoot(p) == siteRootFromSeed(DATASETS[dataset[p]])

(***************************************************************************)
(* crawlDataset, lines 45-151, one action per await                        *)
(***************************************************************************)
\* Lines 46-55: the seed, connectDB, ensureIndexes, the queue and seen-set.
Start(p, d) ==
  /\ pc[p] \in {"idle", "exited"}
  /\ clock < MaxRuns
  /\ d \in DOMAIN DATASETS
  /\ clock' = clock + 1
  /\ indexes' = ensureIndexes(indexes)
  /\ dataset' = [dataset EXCEPT ![p] = d]
  /\ queue' = [queue EXCEPT ![p] = <<DATASETS[d]>>]
  /\ seen' = [seen EXCEPT ![p] = {}]
  /\ cur' = [cur EXCEPT ![p] = NoCur]
  /\ pc' = [pc EXCEPT ![p] = "loop"]
  /\ fetched' = [fetched EXCEPT ![p] = <<>>]
  /\ failed' = [failed EXCEPT ![p] = {}]
  /\ pushed' = [pushed EXCEPT ![p] = {}]
  /\ pushLog' = [pushLog EXCEPT ![p] = <<[from |-> <<>>, link |-> DATASETS[d]]>>]
  /\ dequeues' = [dequeues EXCEPT ![p] = 0]
  /\ pages0' = [pages0 EXCEPT ![p] = pages]
  /\ links0' = [links0 EXCEPT ![p] = links]
  /\ exitStatus' = [exitStatus EXCEPT ![p] = NoExit]
  /\ connects' = [connects EXCEPT ![p] = 1]
  /\ db' = [db EXCEPT ![p] = 1]
  /\ returned' = [returned EXCEPT ![p] = <<>>]
  /\ UNCHANGED <<pureVars, shopVars, dbCalls, poolVars, argv, todo, usage, web, pages, links>>

\* Fault: the boundary check compares the origin only.
InBoundaryOriginOnly(norm, root) == StartsWith(norm, SubSeq(root, 1, 3))

\* Line 64: the hard boundary.
InBoundary(norm, root) == StartsWith(norm, root)

\* Fault: the seen-set is never consulted.
AlreadySeenNever(s, norm) == FALSE

\* Line 66.
AlreadySeen(s, norm) == norm \in s

\* Lines 57-67: shift, normalize, boundary check, seen check.
Dequeue(p) ==
  /\ pc[p] = "loop"
  /\ queue[p] # <<>>
  /\ LET url == Head(queue[p])
         norm == normalizeUrl(url)
     IN /\ queue' = [queue EXCEPT ![p] = Tail(queue[p])]
        /\ dequeues' = [dequeues EXCEPT ![p] = @ + 1]
        /\ IF ~InBoundary(norm, siteRoot(p)) \/ AlreadySeen(seen[p], norm)
             THEN UNCHANGED <<seen, cur, pc>>
             ELSE /\ seen' = [seen EXCEPT ![p] = @ \cup {norm}]
                  /\ cur' = [cur EXCEPT ![p] = [NoCur EXCEPT !.norm = norm]]
                  /\ pc' = [pc EXCEPT ![p] = "findOne"]
  /\ UNCHANGED <<pureVars, shopVars, dbVars, poolVars, mainVars, web, store, clock, dataset, fetched, failed, pushed, pushLog, pages0, links0, exitStatus>>

\* Line 57 with an empty queue, line 150.
Finish(p) ==
  /\ pc[p] = "loop"
  /\ queue[p] = <<>>
  /\ pc' = [pc EXCEPT ![p] = "done"]
  /\ returned' = [returned EXCEPT ![p] = Append(returned[p], dataset[p])]
  /\ UNCHANGED <<pureVars, shopVars, dbVars, poolVars, argv, todo, connects, usage, web, store, clock, dataset, queue, seen, cur,
                 history, exitStatus>>

\* Fault: a stored record is never taken for complete.
IsCompleteNever(existing) == FALSE

\* Line 75.
IsComplete(existing) ==
  existing.found /\ existing.status = 200 /\ Truthy(existing.html)

\* Lines 70-80: the lookup and the two branches on its result.
FindOne(p) ==
  /\ pc[p] = "findOne"
  /\ LET existing == findOne(pages, dataset[p], cur[p].norm)
     IN IF IsComplete(existing)
          THEN /\ pc' = [pc EXCEPT ![p] = "loop"]
               /\ cur' = [cur EXCEPT ![p] = NoCur]
          ELSE /\ cur' = [cur EXCEPT ![p].existing = existing]
               /\ pc' = [pc EXCEPT ![p] = IF existing.found THEN "deleteOne" ELSE "fetch"]
  /\ UNCHANGED <<pureVars, shopVars, dbVars, poolVars, mainVars, web, store, clock, dataset, queue, seen, history, exitStatus>>

\* Line 81.
DeleteOne(p) ==
  /\ pc[p] = "deleteOne"
  /\ pages' = deleteOne(pages, dataset[p], cur[p].norm)
  /\ pc' = [pc EXCEPT ![p] = "deleteMany"]
  /\ UNCHANGED <<pureVars, shopVars, dbVars, poolVars, mainVars, web, links, indexes, clock, dataset, queue, seen, cur, history, exitStatus>>

\* Line 82.
DeleteMany(p) ==
  /\ pc[p] = "deleteMany"
  /\ links' = deleteMany(links, dataset[p], cur[p].norm)
  /\ pc' = [pc EXCEPT ![p] = "fetch"]
  /\ UNCHANGED <<pureVars, shopVars, dbVars, poolVars, mainVars, web, pages, indexes, clock, dataset, queue, seen, cur, history, exitStatus>>

\* What axios.get(norm) does: a 200 response, no response, an error response.
FetchOutcomes == {"ok", "timeout", "http404"}

\* Lines 85-96: the fetch and, on a response, the extraction; both are
\* inside the try, so an extraction that throws lands in the catch with
\* e.response undefined.
Fetch(p) ==
  /\ pc[p] = "fetch"
  /\ LET norm == cur[p].norm IN
     /\ fetched' = [fetched EXCEPT ![p] = Append(@, norm)]
     /\ \/ \E outcome \in FetchOutcomes \ {"ok"} :
             /\ failed' = [failed EXCEPT ![p] = @ \cup {norm}]
             /\ cur' = [cur EXCEPT
                  ![p].status = IF outcome = "http404" THEN 404 ELSE 0,
                  ![p].error = IF outcome = "http404"
                                 THEN "Request failed with status code 404"
                                 ELSE "timeout of 20000ms exceeded"]
             /\ pc' = [pc EXCEPT ![p] = "insertFail"]
        \/ /\ "ok" \in FetchOutcomes
           /\ norm \in DOMAIN web
           /\ failed' = failed
           /\ LET x == extractLinks(web[norm], norm)
              IN IF x.ok
                   THEN /\ cur' = [cur EXCEPT ![p].status = 200,
                                              ![p].html = Text(web[norm]),
                                              ![p].outLinks = x.links]
                        /\ pc' = [pc EXCEPT ![p] = "insertPage"]
                   ELSE /\ cur' = [cur EXCEPT ![p].status = 0,
                                              ![p].html = Text(web[norm]),
                                              ![p].error = "Invalid URL"]
                        /\ pc' = [pc EXCEPT ![p] = "insertFail"]
  /\ UNCHANGED <<pureVars, shopVars, dbVars, poolVars, mainVars, web, store, clock, dataset, queue, seen, pushed, pushLog, dequeues, pages0, links0, exitStatus>>

\* Fault: the failure record carries no error message.
FailureRecordNoError(d, norm, status, error, now) ==
  [dataset |-> d, url |-> norm, status |-> status, html |-> Null,
   outLinks |-> <<>>, fetchedAt |-> now, error |-> Absent]

\* Lines 98-106: the document of the catch branch.
FailureRecord(d, norm, status, error, now) ==
  [dataset |-> d, url |-> norm, status |-> status, html |-> Null,
   outLinks |-> <<>>, fetchedAt |-> now, error |-> error]

\* Fault: the catch branch throws the fetch error again instead of
\* recording it.
InsertFailRethrows(p) ==
  /\ pc[p] = "insertFail"
  /\ pc' = [pc EXCEPT ![p] = "threw"]
  /\ UNCHANGED <<pureVars, shopVars, dbVars, poolVars, mainVars, web, store, clock, dataset, queue, seen, cur, history, exitStatus>>

\* Lines 97-111: the failure record; then continue.
InsertFail(p) ==
  /\ pc[p] = "insertFail"
  /\ LET doc == FailureRecord(dataset[p], cur[p].norm, cur[p].status, cur[p].error, clock)
     IN /\ pages' = insertOne(pages, indexes, doc)
        /\ IF RethrowsPageError(insertOneError(pages, indexes, doc))
             THEN /\ pc' = [pc EXCEPT ![p] = "threw"]
                  /\ cur' = cur
             ELSE /\ pc' = [pc EXCEPT ![p] = "loop"]
                  /\ cur' = [cur EXCEPT ![p] = NoCur]
  /\ UNCHANGED <<pureVars, shopVars, dbVars, poolVars, mainVars, web, links, indexes, clock, dataset, queue, seen, history, exitStatus>>

\* Fault: the links are not filtered by the site root.
WithinSiteUnfiltered(outLinks, root) == outLinks

\* Line 115.
WithinSite(outLinks, root) ==
  SelectSeq(outLinks, LAMBDA to : StartsWith(to, root))

\* Fault: self-links are not excluded from the edges.
EdgesOfWithSelf(withinSite, norm, d) ==
  [i \in 1..Len(withinSite) |-> [dataset |-> d, from |-> norm, to |-> withinSite[i]]]

\* Lines 132-134.
EdgesOf(withinSite, norm, d) ==
  LET targets == SelectSeq(withinSite, LAMBDA to : to # norm)
  IN [i \in 1..Len(targets) |-> [dataset |-> d, from |-> norm, to |-> targets[i]]]

\* Lines 145-147.
ToPush(withinSite, norm) == SelectSeq(withinSite, LAMBDA link : link # norm)

\* Fault: the links are put at the front of the queue (unshift), which makes
\* the traversal depth-first.
EnqueueAtFront(p, withinSite) ==
  LET norm == cur[p].norm
      more == ToPush(withinSite, norm)
  IN /\ queue' = [queue EXCEPT ![p] = more \o @]
     /\ pushed' = [pushed EXCEPT ![p] = @ \cup {<<norm, l>> : l \in Range(more)}]
     /\ pushLog' = [pushLog EXCEPT ![p] =
          @ \o [i \in 1..Len(more) |-> [from |-> norm, link |-> more[i]]]]
     /\ cur' = [cur EXCEPT ![p] = NoCur]
     /\ pc' = [pc EXCEPT ![p] = "loop"]

\* Lines 144-148, after the edges are stored or when there are none.
Enqueue(p, withinSite) ==
  LET norm == cur[p].norm
      more == ToPush(withinSite, norm)
  IN /\ queue' = [queue EXCEPT ![p] = @ \o more]
     /\ pushed' = [pushed EXCEPT ![p] = @ \cup {<<norm, l>> : l \in Range(more)}]
     /\ pushLog' = [pushLog EXCEPT ![p] =
          @ \o [i \in 1..Len(more) |-> [from |-> norm, link |-> more[i]]]]
     /\ cur' = [cur EXCEPT ![p] = NoCur]
     /\ pc' = [pc EXCEPT ![p] = "loop"]

\* Fault: the page record is written without its html, to be completed later.
InsertPageMetadataFirst(p) ==
  /\ pc[p] = "insertPage"
  /\ LET withinSite == WithinSite(cur[p].outLinks, siteRoot(p))
         edges == EdgesOf(withinSite, cur[p].norm, dataset[p])
         doc == [dataset |-> dataset[p], url |-> cur[p].norm, status |-> cur[p].status,
                 html |-> Null, outLinks |-> withinSite, fetchedAt |-> clock,
                 error |-> Absent]
     IN /\ pages' = insertOne(pages, indexes, doc)
        /\ IF RethrowsPageError(insertOneError(pages, indexes, doc))
             THEN /\ pc' = [pc EXCEPT ![p] = "threw"]
                  /\ UNCHANGED <<cur, queue, pushed, pushLog>>
             ELSE IF edges # <<>>
               THEN /\ cur' = [cur EXCEPT ![p].withinSite = withinSite]
                    /\ pc' = [pc EXCEPT ![p] = "insertEdges"]
                    /\ UNCHANGED <<queue, pushed, pushLog>>
               ELSE Enqueue(p, withinSite)
  /\ UNCHANGED <<pureVars, shopVars, dbVars, poolVars, mainVars, web, links, indexes, clock, dataset, seen, fetched, failed, dequeues,
                 pages0, links0, exitStatus>>

\* Lines 114-136: filter, the page record, the edges to store.
InsertPage(p) ==
  /\ pc[p] = "insertPage"
  /\ LET withinSite == WithinSite(cur[p].outLinks, siteRoot(p))
         edges == EdgesOf(withinSite, cur[p].norm, dataset[p])
         doc == [dataset |-> dataset[p], url |-> cur[p].norm, status |-> cur[p].status,
                 html |-> cur[p].html, outLinks |-> withinSite, fetchedAt |-> clock,
                 error |-> Absent]
     IN /\ pages' = insertOne(pages, indexes, doc)
        /\ IF RethrowsPageError(insertOneError(pages, indexes, doc))
             THEN /\ pc' = [pc EXCEPT ![p] = "threw"]
                  /\ UNCHANGED <<cur, queue, pushed, pushLog>>
             ELSE IF edges # <<>>
               THEN /\ cur' = [cur EXCEPT ![p].withinSite = withinSite]
                    /\ pc' = [pc EXCEPT ![p] = "insertEdges"]
                    /\ UNCHANGED <<queue, pushed, pushLog>>
               ELSE Enqueue(p, withinSite)
  /\ UNCHANGED <<pureVars, shopVars, dbVars, poolVars, mainVars, web, links, indexes, clock, dataset, seen, fetched, failed, dequeues,
                 pages0, links0, exitStatus>>

\* Lines 137-148: the bulk insert, then the enqueue.
InsertEdges(p) ==
  /\ pc[p] = "insertEdges"
  /\ LET edges == EdgesOf(cur[p].withinSite, cur[p].norm, dataset[p])
     IN /\ links' = insertMany(links, indexes, edges)
        /\ IF RethrowsBulkError(insertManyError(links, indexes, edges))
             THEN /\ pc' = [pc EXCEPT ![p] = "threw"]
                  /\ UNCHANGED <<cur, queue, pushed, pushLog>>
             ELSE Enqueue(p, cur[p].withinSite)
  /\ UNCHANGED <<pureVars, shopVars, dbVars, poolVars, mainVars, web, pages, indexes, clock, dataset, seen, fetched, failed, dequeues,
                 pages0, links0, exitStatus>>

\* Fault: the catch of main exits with status 0 as well.
ExitAlwaysZero(p) ==
  /\ pc[p] \in {"done", "threw"}
  /\ pc[p] = "done" => Len(todo[p]) <= 1
  /\ exitStatus' = [exitStatus EXCEPT ![p] = {0}]
  /\ pc' = [pc EXCEPT ![p] = "exited"]
  /\ UNCHANGED <<pureVars, shopVars, dbVars, poolVars, mainVars, web, store, clock, dataset, queue, seen, cur, history>>

\* Lines 160-174: the last crawlDataset has returned and main calls process.exit(0),
\* or it has rejected and the catch of main calls process.exit(1).
Exit(p) ==
  /\ pc[p] \in {"done", "threw"}
  /\ pc[p] = "done" => Len(todo[p]) <= 1
  /\ exitStatus' = [exitStatus EXCEPT ![p] = IF pc[p] = "done" THEN {0} ELSE {1}]
  /\ pc' = [pc EXCEPT ![p] = "exited"]
  /\ UNCHANGED <<pureVars, shopVars, dbVars, poolVars, mainVars, web, store, clock, dataset, queue, seen, cur, history>>

Step(p) ==
  \/ Dequeue(p)
  \/ Finish(p)
  \/ FindOne(p)
  \/ DeleteOne(p)
  \/ DeleteMany(p)
  \/ Fetch(p)
  \/ InsertFail(p)
  \/ InsertPage(p)
  \/ InsertEdges(p)
  \/ Exit(p)

\* node crawler.js <dataset>, run again and again: one run at a time.
StartAlone(d) ==
  /\ \A q \in Procs : pc[q] \in {"idle", "exited"}
  /\ Start("r1", d)

Next ==
  \/ \E d \in RunDatasets : StartAlone(d)
  \/ Step("r1")

Spec == Init /\ [][Next]_vars

\* node crawler.js tinyfruits, started while another such process may still
\* be running against the same store (r1 is the one that starts first).
StartOverlapping(p) ==
  /\ p = "r2" => pc["r1"] # "idle"
  /\ Start(p, "tinyfruits")

\* Every behaviour of Spec, and those in which two runs overlap.
NextConc ==
  \/ \E d \in RunDatasets : StartAlone(d)
  \/ \E p \in Procs : StartOverlapping(p)
  \/ \E p \in Procs : Step(p)

SpecConc == Init /\ [][NextConc]_vars

\* A process that can take a step takes one: the event loop resumes the
\* pending await of the only running process.
SpecFair == Spec /\ WF_vars(Step("r1"))

(***************************************************************************)
(* A store that can fail                                                   *)
(***************************************************************************)
\* The awaits of the loop that call the store: lines 70, 81, 82, 97, 118, 137.
StoreSteps == {"findOne", "deleteOne", "deleteMany", "insertFail", "insertPage", "insertEdges"}

\* The errors of the store that are no duplicate-key conflict: an
\* unreachable host and a refused operation.
HostUnreachable == [code |-> 6, message |-> <<"connection", "closed">>]
Unauthorized == [code |-> 13, message |-> <<"not", "authorized">>]
StoreErrors == {HostUnreachable, Unauthorized}

\* Whether the catch around the operation of step pos throws err again;
\* findOne, deleteOne and deleteMany (lines 70, 81, 82) have no catch.
Rethrown(pos, err) ==
  CASE pos \in {"insertFail", "insertPage"} -> RethrowsPageError(err)
    [] pos = "insertEdges" -> RethrowsBulkError(err)
    [] OTHER -> TRUE

\* The store operation the run is waiting for rejects with an error that is
\* not a duplicate-key conflict, having stored nothing.  An error that is
\* thrown again leaves the loop, nothing in crawlDataset catches it, and
\* crawlDataset rejects; an error a catch swallows lets the run go on with
\* what follows the operation.
StoreFails(p) ==
  /\ pc[p] \in StoreSteps
  /\ \E err \in StoreErrors :
       IF Rethrown(pc[p], err)
         THEN /\ pc' = [pc EXCEPT ![p] = "threw"]
              /\ UNCHANGED <<cur, queue, pushed, pushLog>>
         ELSE CASE pc[p] = "insertFail" ->
                     /\ pc' = [pc EXCEPT ![p] = "loop"]
                     /\ cur' = [cur EXCEPT ![p] = NoCur]
                     /\ UNCHANGED <<queue, pushed, pushLog>>
                [] pc[p] = "insertPage" ->
                     LET withinSite == WithinSite(cur[p].outLinks, siteRoot(p))
                     IN IF EdgesOf(withinSite, cur[p].norm, dataset[p]) # <<>>
                          THEN /\ cur' = [cur EXCEPT ![p].withinSite = withinSite]
                               /\ pc' = [pc EXCEPT ![p] = "insertEdges"]
                               /\ UNCHANGED <<queue, pushed, pushLog>>
                          ELSE Enqueue(p, withinSite)
                [] pc[p] = "insertEdges" -> Enqueue(p, cur[p].withinSite)
  /\ UNCHANGED <<pureVars, shopVars, dbVars, poolVars, mainVars, web, store, clock, dataset, seen, fetched, failed, dequeues,
                 pages0, links0, exitStatus>>

\* Line 49: connectDB rejects; crawlDataset rejects before it has a queue.
ConnectFails(p, d) ==
  /\ pc[p] \in {"idle", "exited"}
  /\ \A q \in Procs : pc[q] \in {"idle", "exited"}
  /\ clock < MaxRuns
  /\ d \in DOMAIN DATASETS
  /\ clock' = clock + 1
  /\ dataset' = [dataset EXCEPT ![p] = d]
  /\ queue' = [queue EXCEPT ![p] = <<>>]
  /\ seen' = [seen EXCEPT ![p] = {}]
  /\ cur' = [cur EXCEPT ![p] = NoCur]
  /\ pc' = [pc EXCEPT ![p] = "threw"]
  /\ fetched' = [fetched EXCEPT ![p] = <<>>]
  /\ failed' = [failed EXCEPT ![p] = {}]
  /\ pushed' = [pushed EXCEPT ![p] = {}]
  /\ pushLog' = [pushLog EXCEPT ![p] = <<>>]
  /\ dequeues' = [dequeues EXCEPT ![p] = 0]
  /\ pages0' = [pages0 EXCEPT ![p] = pages]
  /\ links0' = [links0 EXCEPT ![p] = links]
  /\ exitStatus' = [exitStatus EXCEPT ![p] = NoExit]
  /\ returned' = [returned EXCEPT ![p] = <<>>]
  /\ UNCHANGED <<pureVars, shopVars, dbVars, poolVars, argv, todo, connects, usage, web, store>>

\* Every behaviour of Spec, and those in which the store fails.
NextFaulty ==
  \/ \E d \in RunDatasets : StartAlone(d)
  \/ \E d \in RunDatasets : ConnectFails("r1", d)
  \/ Step("r1")
  \/ StoreFails("r1")

SpecFaulty == Init /\ [][NextFaulty]_vars

SpecFaultyFair == SpecFaulty /\ WF_vars(Step("r1"))

\* Line 137: insertMany rejects with an error that is no duplicate key.
EdgeInsertFails(p) == pc[p] = "insertEdges" /\ StoreFails(p)

\* Every behaviour of SpecConc, and those in which a bulk edge insert fails.
NextConcFaulty ==
  \/ \E d \in RunDatasets : StartAlone(d)
  \/ \E p \in Procs : StartOverlapping(p)
  \/ \E p \in Procs : Step(p)
  \/ \E p \in Procs : EdgeInsertFails(p)

\* The webs two overlapping runs over a failing store are checked on.
SmallWebs == {WebScenario, WebCycle, WebEmptyBody}

InitSmall == Init /\ web \in SmallWebs

SpecConcFaulty == InitSmall /\ [][NextConcFaulty]_vars

(***************************************************************************)
(* main: node crawler.js [<dataset> | all], with the start-up of           *)
(* crawlDataset taken one await at a time.                                 *)
(***************************************************************************)
\* Object.keys(DATASETS): the own keys in insertion order.
DatasetKeys == <<"tinyfruits", "fruits100", "fruitsA", "fruitgraph">>

\* Names that DATASETS, an object literal, inherits from Object.prototype.
InheritedKeys == {"constructor"}

\* What DATASETS[name] evaluates to for a name that is no own key.
Undefined == <<>>
InheritedValue == <<"function Object() { [native code] }">>

\* Line 46: const seed = DATASETS[dataset].
Lookup(name) ==
  IF name \in DOMAIN DATASETS THEN DATASETS[name]
  ELSE IF name \in InheritedKeys THEN InheritedValue
  ELSE Undefined

\* The command lines: a registered dataset, all, none, a name that is no
\* property of DATASETS, and one that is an inherited property.
Args == RunDatasets \cup {"all", NoArg, "nosuch", "constructor"}

\* Lines 154-163: main reads process.argv[2]; without it the usage line is
\* printed and the process exits with status 1.
Launch(p, arg) ==
  /\ \A q \in Procs : pc[q] \in {"idle", "exited"}
  /\ clock < MaxRuns
  /\ argv' = [argv EXCEPT ![p] = arg]
  /\ connects' = [connects EXCEPT ![p] = 0]
  /\ db' = [db EXCEPT ![p] = 0]
  /\ dbCalls' = [dbCalls EXCEPT ![p] = <<>>]
  /\ returned' = [returned EXCEPT ![p] = <<>>]
  /\ usage' = [usage EXCEPT ![p] = (arg = NoArg)]
  /\ exitStatus' = [exitStatus EXCEPT ![p] = IF arg = NoArg THEN {1} ELSE NoExit]
  /\ pc' = [pc EXCEPT ![p] = IF arg = NoArg THEN "exited" ELSE "call"]
  /\ todo' = [todo EXCEPT ![p] = IF arg = NoArg THEN <<>>
                                 ELSE IF arg = "all" THEN DatasetKeys
                                 ELSE <<arg>>]
  /\ UNCHANGED <<pureVars, shopVars, poolVars, web, store, clock, dataset, queue, seen, cur, history>>

\* Lines 45-49: crawlDataset is called, looks the seed up and throws when it
\* is falsy; otherwise it goes on to await connectDB().
CallCrawl(p) ==
  /\ pc[p] = "call"
  /\ LET name == Head(todo[p])
     IN IF Lookup(name) = Undefined
          THEN /\ pc' = [pc EXCEPT ![p] = "threw"]
               /\ UNCHANGED <<clock, dataset, queue, seen, cur, history>>
          ELSE /\ pc' = [pc EXCEPT ![p] = "connect"]
               /\ clock' = clock + 1
               /\ dataset' = [dataset EXCEPT ![p] =
                                IF name \in DOMAIN DATASETS THEN name ELSE @]
               /\ queue' = [queue EXCEPT ![p] = <<>>]
               /\ seen' = [seen EXCEPT ![p] = {}]
               /\ cur' = [cur EXCEPT ![p] = NoCur]
               /\ fetched' = [fetched EXCEPT ![p] = <<>>]
               /\ failed' = [failed EXCEPT ![p] = {}]
               /\ pushed' = [pushed EXCEPT ![p] = {}]
               /\ pushLog' = [pushLog EXCEPT ![p] = <<>>]
               /\ dequeues' = [dequeues EXCEPT ![p] = 0]
               /\ pages0' = [pages0 EXCEPT ![p] = pages]
               /\ links0' = [links0 EXCEPT ![p] = links]
  /\ UNCHANGED <<pureVars, shopVars, dbVars, poolVars, mainVars, web, store, exitStatus>>

\* db.js lines 12-19, awaited at line 49: the client connects on the first
\* call of the process and the handle is reused afterwards.
Connect(p) ==
  /\ pc[p] = "connect"
  /\ connects' = [connects EXCEPT ![p] = IF @ = 0 THEN 1 ELSE @]
  /\ db' = [db EXCEPT ![p] = IF @ = 0 THEN 1 ELSE @]
  /\ pc' = [pc EXCEPT ![p] = "ensurePages"]
  /\ UNCHANGED <<pureVars, shopVars, dbCalls, poolVars, argv, todo, returned, usage, web, store, clock, dataset, queue, seen,
                 cur, history, exitStatus>>

\* Fault: the index is not created.
createIndexSkipped(idx, name) == idx

\* Lines 41-42: one createIndex(..., { unique: true }).
createIndex(idx, name) == idx \cup {name}

\* Line 41, awaited from line 50.
CreatePagesIndex(p) ==
  /\ pc[p] = "ensurePages"
  /\ indexes' = createIndex(indexes, PagesIndex)
  /\ pc' = [pc EXCEPT ![p] = "ensureLinks"]
  /\ UNCHANGED <<pureVars, shopVars, dbVars, poolVars, mainVars, web, pages, links, clock, dataset, queue, seen, cur,
                 history, exitStatus>>

\* Line 42, and lines 52-55 that follow it without an await: new URL(seed)
\* throws for a seed that is no URL, otherwise the queue holds the seed.
CreateLinksIndex(p) ==
  /\ pc[p] = "ensureLinks"
  /\ indexes' = createIndex(indexes, LinksIndex)
  /\ LET seed == Lookup(Head(todo[p]))
     IN IF IsAbsolute(seed)
          THEN /\ queue' = [queue EXCEPT ![p] = <<seed>>]
               /\ pushLog' = [pushLog EXCEPT ![p] = <<[from |-> <<>>, link |-> seed]>>]
               /\ pc' = [pc EXCEPT ![p] = "loop"]
          ELSE /\ pc' = [pc EXCEPT ![p] = "threw"]
               /\ UNCHANGED <<queue, pushLog>>
  /\ UNCHANGED <<pureVars, shopVars, dbVars, poolVars, mainVars, web, pages, links, clock, dataset, seen, cur, fetched,
                 failed, pushed, dequeues, pages0, links0, exitStatus>>

\* Fault: the loop of `all` goes on after a crawl that threw.
NextDatasetAfterThrow(p) ==
  /\ pc[p] \in {"done", "threw"}
  /\ Len(todo[p]) > 1
  /\ todo' = [todo EXCEPT ![p] = Tail(@)]
  /\ pc' = [pc EXCEPT ![p] = "call"]
  /\ UNCHANGED <<pureVars, shopVars, dbVars, poolVars, argv, connects, returned, usage, web, store, clock, dataset, queue,
                 seen, cur, history, exitStatus>>

\* Lines 160-162: the for loop of `all` goes on to the next key once the
\* awaited crawlDataset has returned.
NextDataset(p) ==
  /\ pc[p] = "done"
  /\ Len(todo[p]) > 1
  /\ todo' = [todo EXCEPT ![p] = Tail(@)]
  /\ pc' = [pc EXCEPT ![p] = "call"]
  /\ UNCHANGED <<pureVars, shopVars, dbVars, poolVars, argv, connects, returned, usage, web, store, clock, dataset, queue,
                 seen, cur, history, exitStatus>>

\* Lines 49-50: client.connect() or a createIndex rejects.
StartupRejects(p) ==
  /\ \/ pc[p] = "connect" /\ connects[p] = 0
     \/ pc[p] \in {"ensurePages", "ensureLinks"}
  /\ pc' = [pc EXCEPT ![p] = "threw"]
  /\ UNCHANGED <<pureVars, shopVars, dbVars, poolVars, mainVars, web, store, clock, dataset, queue, seen, cur, history,
                 exitStatus>>

\* The exit status of a process ended by SIGKILL.
Killed == 137

\* The process is killed from outside, at any point.
Kill(p) ==
  /\ pc[p] \notin {"idle", "exited"}
  /\ pc' = [pc EXCEPT ![p] = "exited"]
  /\ exitStatus' = [exitStatus EXCEPT ![p] = {Killed}]
  /\ UNCHANGED <<pureVars, shopVars, dbVars, poolVars, mainVars, web, store, clock, dataset, queue, seen, cur, history>>

MainStep(p) ==
  \/ CallCrawl(p)
  \/ Connect(p)
  \/ CreatePagesIndex(p)
  \/ CreateLinksIndex(p)
  \/ NextDataset(p)

\* One process at a time, started from any command line, over a store that
\* may fail at any call, and killed at any point.
NextMain ==
  \/ \E arg \in Args : Launch("r1", arg)
  \/ MainStep("r1")
  \/ Step("r1")
  \/ StartupRejects("r1")
  \/ StoreFails("r1")
  \/ Kill("r1")

SpecMain == Init /\ [][NextMain]_vars

\* The webs termination of a process is checked on.
InitFew == Init /\ web \in {WebScenario, WebCycle}

\* The event loop resumes the pending await of the running process.
SpecMainFair ==
  InitFew /\ [][NextMain]_vars /\ WF_vars(MainStep("r1")) /\ WF_vars(Step("r1"))

(***************************************************************************)
(* The worker-pool crawler (lines 176-364): a Crawler object fetches up to *)
(* maxConnections URLs at a time and hands each response to an async       *)
(* callback; callbacks interleave at their awaits.  queue[p] is the task   *)
(* queue of the Crawler, seen[p] the seen-set of the run.                  *)
(***************************************************************************)
maxConnections == 10

\* Lines 205-217: as extractLinks, but an href that new URL throws on is
\* skipped inside the loop.
extractLinksFromCheerio(html, baseUrl) ==
  LET hrefs == SelectSeq(Anchors(html), LAMBDA href : CanResolve(href, baseUrl))
      out == [i \in 1..Len(hrefs) |->
                normalizeUrl(UrlToString(ResolveUrl(hrefs[i], baseUrl)))]
  IN Dedup(out)

\* updateOne({dataset, url}, {$set: fields}, {upsert: true}): the first
\* matching document gets the fields of $set and keeps its other fields; if
\* none matches, a document with the fields of $set is inserted.
updateOne(pg, d, u, fields) ==
  IF \E doc \in BagToSet(pg) : PageMatches(doc, d, u)
    THEN LET doc == CHOOSE doc \in BagToSet(pg) : PageMatches(doc, d, u)
             new == [f \in DOMAIN doc |-> IF f \in DOMAIN fields THEN fields[f] ELSE doc[f]]
         IN (pg (-) SetToBag({doc})) (+) SetToBag({new})
    ELSE LET new == [f \in {"dataset", "url", "status", "html", "outLinks", "fetchedAt",
                            "error"} |->
                       IF f \in DOMAIN fields THEN fields[f] ELSE Absent]
         IN pg (+) SetToBag({new})

\* One more entry in the log of the run.
Logged(log, op, u) == log (+) SetToBag({[op |-> op, url |-> u]})

\* How often the run did op for canonical URL u.
TimesLogged(log, op, u) == CopiesIn([op |-> op, url |-> u], log)

\* Fault: the callback returns without calling done(), and keeps its
\* connection.
ReturnsWithoutDone(cbs, cb) ==
  (cbs (-) SetToBag({cb})) (+) SetToBag({[cb EXCEPT !.step = "returned"]})

\* Lines 325-329: the callback is over, on whatever path: the finally block
\* calls done(), which gives its connection back.  cbs holds the callbacks
\* that have been invoked and have not called done().
Returns(cbs, cb) == cbs (-) SetToBag({cb})

\* A callback that has just been invoked for canonical URL url.
Invoked(url) ==
  [url |-> url, step |-> "invoked", status |-> 0, html |-> Null, outLinks |-> <<>>,
   error |-> Absent]

\* Fault: the seen-set is marked only when the callback is over.
MarkSeenLate(s, url) == s

\* Line 251: seen.add(url).
MarkSeen(s, url) == s \cup {url}

\* Lines 318-323: the links of a page that c.add is called with.
ToAdd(outLinks, s, root) ==
  SelectSeq(outLinks, LAMBDA link : link \notin s /\ StartsWith(link, root))

\* The log after c.add was called with each of the links.
RECURSIVE LoggedAdds(_, _)
LoggedAdds(log, adds) ==
  IF adds = <<>> THEN log
  ELSE LoggedAdds(Logged(log, "add", normalizeUrl(Head(adds))), Tail(adds))

\* Lines 224-237 and 337: the start-up of crawlDataset, with c.add of
\* the seed.
StartPool(p, d) ==
  /\ \A q \in Procs : pc[q] \in {"idle", "exited"}
  /\ clock < MaxRuns
  /\ d \in DOMAIN DATASETS
  /\ clock' = clock + 1
  /\ indexes' = ensureIndexes(indexes)
  /\ dataset' = [dataset EXCEPT ![p] = d]
  /\ queue' = [queue EXCEPT ![p] = <<DATASETS[d]>>]
  /\ seen' = [seen EXCEPT ![p] = {}]
  /\ cur' = [cur EXCEPT ![p] = NoCur]
  /\ pc' = [pc EXCEPT ![p] = "pool"]
  /\ inflight' = EmptyBag
  /\ callbacks' = EmptyBag
  /\ poolLog' = Logged(EmptyBag, "add", normalizeUrl(DATASETS[d]))
  /\ exitStatus' = [exitStatus EXCEPT ![p] = NoExit]
  /\ connects' = [connects EXCEPT ![p] = 1]
  /\ db' = [db EXCEPT ![p] = 1]
  /\ returned' = [returned EXCEPT ![p] = <<>>]
  /\ UNCHANGED <<pureVars, shopVars, dbCalls, argv, todo, usage, web, pages, links, history>>

\* The Crawler takes the next task when a connection is free (line 237); a
\* connection is held until the callback has called done().
Dispatch(p) ==
  /\ pc[p] = "pool"
  /\ queue[p] # <<>>
  /\ BagCardinality(inflight) + BagCardinality(callbacks) < maxConnections
  /\ inflight' = inflight (+) SetToBag({Head(queue[p])})
  /\ queue' = [queue EXCEPT ![p] = Tail(@)]
  /\ UNCHANGED <<pureVars, shopVars, dbVars, mainVars, web, store, clock, pc, dataset, seen, cur, history,
                 callbacks, poolLog, exitStatus>>

\* Lines 243-254 and 272-287: a request completes and the callback runs up
\* to its first await: boundary check, seen check and mark, then the upsert
\* of the failure record or of the page record is issued.
Respond(p, raw) ==
  /\ pc[p] = "pool"
  /\ BagIn(raw, inflight)
  /\ inflight' = inflight (-) SetToBag({raw})
  /\ LET url == normalizeUrl(raw)
         root == siteRoot(p)
     IN IF ~StartsWith(url, root) \/ url \in seen[p]
          THEN /\ callbacks' = Returns(callbacks (+) SetToBag({Invoked(url)}), Invoked(url))
               /\ UNCHANGED <<seen, poolLog>>
          ELSE /\ seen' = [seen EXCEPT ![p] = MarkSeen(@, url)]
               /\ poolLog' = Logged(poolLog, "pass", url)
               /\ \/ \E message \in {"ETIMEDOUT"} :
                       callbacks' = callbacks (+) SetToBag({
                         [url |-> url, step |-> "upsertFail", status |-> 0, html |-> Null,
                          outLinks |-> <<>>, error |-> message]})
                  \/ callbacks' = callbacks (+) SetToBag({
                       [url |-> url, step |-> "upsertPage", status |-> 404, html |-> Null,
                        outLinks |-> <<>>, error |-> Absent]})
                  \/ /\ raw \in DOMAIN web
                     /\ callbacks' = callbacks (+) SetToBag({
                          [url |-> url, step |-> "upsertPage", status |-> 200,
                           html |-> Text(web[raw]),
                           outLinks |-> WithinSite(extractLinksFromCheerio(web[raw], url), root),
                           error |-> Absent]})
  /\ UNCHANGED <<pureVars, shopVars, dbVars, mainVars, web, store, clock, pc, dataset, queue, cur, history,
                 exitStatus>>

\* Lines 254-269: the upsert of the failure record is done; the callback
\* returns and calls done().
UpsertFailDone(p, cb) ==
  /\ pc[p] = "pool"
  /\ BagIn(cb, callbacks)
  /\ cb.step = "upsertFail"
  /\ pages' = updateOne(pages, dataset[p], cb.url,
       [dataset |-> dataset[p], url |-> cb.url, status |-> cb.status, html |-> Null,
        outLinks |-> <<>>, fetchedAt |-> clock, error |-> cb.error])
  /\ poolLog' = Logged(poolLog, "upsert", cb.url)
  /\ callbacks' = Returns(callbacks, cb)
  /\ UNCHANGED <<pureVars, shopVars, dbVars, mainVars, web, links, indexes, clock, pc, dataset, queue, seen, cur,
                 history, inflight, exitStatus>>

\* Lines 318-328: c.add for every link that is not in the seen-set,
\* then done().
AddLinks(p, cb, op) ==
  LET adds == ToAdd(cb.outLinks, seen[p], siteRoot(p))
  IN /\ queue' = [queue EXCEPT ![p] = @ \o adds]
     /\ poolLog' = LoggedAdds(Logged(poolLog, op, cb.url), adds)
     /\ callbacks' = Returns(callbacks, cb)

\* Lines 287-315: the upsert of the page record is done; the edges are
\* built and, if there are any, their insertMany is issued.
UpsertPageDone(p, cb) ==
  /\ pc[p] = "pool"
  /\ BagIn(cb, callbacks)
  /\ cb.step = "upsertPage"
  /\ pages' = updateOne(pages, dataset[p], cb.url,
       [dataset |-> dataset[p], url |-> cb.url, status |-> cb.status, html |-> cb.html,
        outLinks |-> cb.outLinks, fetchedAt |-> clock])
  /\ IF EdgesOf(cb.outLinks, cb.url, dataset[p]) # <<>>
       THEN /\ callbacks' = (callbacks (-) SetToBag({cb}))
                              (+) SetToBag({[cb EXCEPT !.step = "insertMany"]})
            /\ poolLog' = Logged(poolLog, "upsert", cb.url)
            /\ UNCHANGED queue
       ELSE AddLinks(p, cb, "upsert")
  /\ UNCHANGED <<pureVars, shopVars, dbVars, mainVars, web, links, indexes, clock, pc, dataset, seen, cur,
                 history, inflight, exitStatus>>

\* Lines 309-328: the insertMany of the edges is done (duplicates are
\* ignored); the links are added and the callback calls done().
InsertManyDone(p, cb) ==
  /\ pc[p] = "pool"
  /\ BagIn(cb, callbacks)
  /\ cb.step = "insertMany"
  /\ links' = insertMany(links, indexes, EdgesOf(cb.outLinks, cb.url, dataset[p]))
  /\ AddLinks(p, cb, "insertMany")
  /\ UNCHANGED <<pureVars, shopVars, dbVars, mainVars, web, pages, indexes, clock, pc, dataset, seen, cur,
                 history, inflight, exitStatus>>

\* Lines 254, 287, 309 and 325-329: updateOne or insertMany rejects with an
\* error that is no duplicate key; the catch of the callback rejects the
\* promise crawlDataset awaits, and the finally block calls done().
PoolStoreFails(p, cb) ==
  /\ pc[p] = "pool"
  /\ BagIn(cb, callbacks)
  /\ cb.step \in {"upsertFail", "upsertPage", "insertMany"}
  /\ \E err \in StoreErrors : cb.step = "insertMany" => RethrowsBulkError(err)
  /\ callbacks' = Returns(callbacks, cb)
  /\ pc' = [pc EXCEPT ![p] = "threw"]
  /\ UNCHANGED <<pureVars, shopVars, dbVars, mainVars, web, store, clock, dataset, queue, seen, cur, history,
                 inflight, poolLog, exitStatus>>

\* Line 333: the Crawler emits drain when no task is queued or running, and
\* the promise crawlDataset awaits resolves.
Drain(p) ==
  /\ pc[p] = "pool"
  /\ queue[p] = <<>>
  /\ inflight = EmptyBag
  /\ callbacks = EmptyBag
  /\ pc' = [pc EXCEPT ![p] = "done"]
  /\ returned' = [returned EXCEPT ![p] = Append(@, dataset[p])]
  /\ UNCHANGED <<pureVars, shopVars, dbVars, argv, todo, connects, usage, web, store, clock, dataset, queue, seen,
                 cur, history, poolVars, exitStatus>>

\* The callbacks that can be suspended at an await.
CallbackRecords == BagToSet(callbacks)

PoolStep(p) ==
  \/ Dispatch(p)
  \/ \E raw \in BagToSet(inflight) : Respond(p, raw)
  \/ \E cb \in CallbackRecords : UpsertFailDone(p, cb)
  \/ \E cb \in CallbackRecords : UpsertPageDone(p, cb)
  \/ \E cb \in CallbackRecords : InsertManyDone(p, cb)
  \/ Drain(p)

\* node crawler.js <dataset> of the worker-pool crawler, run again and again.
NextPool ==
  \/ \E d \in RunDatasets : StartPool("r1", d)
  \/ PoolStep("r1")
  \/ \E cb \in CallbackRecords : PoolStoreFails("r1", cb)
  \/ Exit("r1")

SpecPool == Init /\ [][NextPool]_vars

\* The event loop delivers every pending response and resumes every
\* suspended callback; checked on the web of InitPoolFew.
InitPoolFew == Init /\ web = WebDiamond

SpecPoolFair ==
  InitPoolFew /\ [][NextPool]_vars /\ WF_vars(PoolStep("r1")) /\ WF_vars(Exit("r1"))

(***************************************************************************)
(* The directory-boundary crawlers (lines 366-529 and 531-687): the loop   *)
(* of the primary crawler with the directory of the seed as boundary,      *)
(* tested on the links only.  Start-up, deleteOne, deleteMany, the fetch,  *)
(* the failure insert, the end of the loop and the exit are the code of    *)
(* the primary crawler and are taken from its actions.                     *)
(***************************************************************************)
\* Lines 388-391 and 548-551: the seed up to and including its last "/".
baseDirFromSeed(seed) == SubSeq(seed, 1, LastIndexOf(seed, "/"))

baseDir(p) == baseDirFromSeed(DATASETS[dataset[p]])

\* Lines 488 and 641: the links inside the directory of the seed.
InBaseDir(outLinks, dir) == SelectSeq(outLinks, LAMBDA to : StartsWith(to, dir))

\* Lines 486-489 and 640-642: an edge to every link inside the directory.
DirEdgesOf(outLinks, norm, d, dir) ==
  LET targets == InBaseDir(outLinks, dir)
  IN [i \in 1..Len(targets) |-> [dataset |-> d, from |-> norm, to |-> targets[i]]]

\* Lines 423-428 and 583-588: shift, normalize, seen check and mark.
DirDequeue(p) ==
  /\ pc[p] = "loop"
  /\ queue[p] # <<>>
  /\ LET norm == normalizeUrl(Head(queue[p]))
     IN /\ queue' = [queue EXCEPT ![p] = Tail(queue[p])]
        /\ dequeues' = [dequeues EXCEPT ![p] = @ + 1]
        /\ IF AlreadySeen(seen[p], norm)
             THEN UNCHANGED <<seen, cur, pc>>
             ELSE /\ seen' = [seen EXCEPT ![p] = @ \cup {norm}]
                  /\ cur' = [cur EXCEPT ![p] = [NoCur EXCEPT !.norm = norm]]
                  /\ pc' = [pc EXCEPT ![p] = "findOne"]
  /\ UNCHANGED <<pureVars, shopVars, dbVars, poolVars, mainVars, web, store, clock, dataset, fetched, failed,
                 pushed, pushLog, pages0, links0, exitStatus>>

\* Fault: only a complete record ends the iteration, a stored failure is
\* fetched again.
SkipsComplete(existing) == IsComplete(existing)

\* Line 592: if (already) continue.
SkipsAny(existing) == existing.found

\* Lines 591-592 of the earliest crawler: any record of the URL ends the
\* iteration.
EarliestFindOne(p) ==
  /\ pc[p] = "findOne"
  /\ LET already == findOne(pages, dataset[p], cur[p].norm)
     IN IF SkipsAny(already)
          THEN /\ pc' = [pc EXCEPT ![p] = "loop"]
               /\ cur' = [cur EXCEPT ![p] = NoCur]
          ELSE /\ pc' = [pc EXCEPT ![p] = "fetch"]
               /\ cur' = [cur EXCEPT ![p].existing = already]
  /\ UNCHANGED <<pureVars, shopVars, dbVars, poolVars, mainVars, web, store, clock, dataset, queue, seen, history,
                 exitStatus>>

\* Lines 499-501 and 657-659: every link inside the directory is pushed,
\* the page itself included.
DirEnqueue(p) ==
  LET norm == cur[p].norm
      more == InBaseDir(cur[p].outLinks, baseDir(p))
  IN /\ queue' = [queue EXCEPT ![p] = @ \o more]
     /\ pushed' = [pushed EXCEPT ![p] = @ \cup {<<norm, l>> : l \in Range(more)}]
     /\ pushLog' = [pushLog EXCEPT ![p] =
          @ \o [i \in 1..Len(more) |-> [from |-> norm, link |-> more[i]]]]
     /\ cur' = [cur EXCEPT ![p] = NoCur]
     /\ pc' = [pc EXCEPT ![p] = "loop"]

\* Lines 474-491 and 625-644: the page record with all its outLinks; the
\* edges are inserted if there are any.
DirInsertPage(p) ==
  /\ pc[p] = "insertPage"
  /\ LET doc == [dataset |-> dataset[p], url |-> cur[p].norm, status |-> cur[p].status,
                 html |-> cur[p].html, outLinks |-> cur[p].outLinks, fetchedAt |-> clock,
                 error |-> Absent]
     IN /\ pages' = insertOne(pages, indexes, doc)
        /\ IF DirEdgesOf(cur[p].outLinks, cur[p].norm, dataset[p], baseDir(p)) # <<>>
             THEN /\ pc' = [pc EXCEPT ![p] = "insertEdges"]
                  /\ UNCHANGED <<cur, queue, pushed, pushLog>>
             ELSE DirEnqueue(p)
  /\ UNCHANGED <<pureVars, shopVars, dbVars, poolVars, mainVars, web, links, indexes, clock, dataset, seen,
                 fetched, failed, dequeues, pages0, links0, exitStatus>>

\* Lines 492-501 and 646-659: insertMany of the edges, duplicates ignored,
\* then the links are pushed.
DirInsertEdges(p) ==
  /\ pc[p] = "insertEdges"
  /\ links' = insertMany(links, indexes,
                         DirEdgesOf(cur[p].outLinks, cur[p].norm, dataset[p], baseDir(p)))
  /\ DirEnqueue(p)
  /\ UNCHANGED <<pureVars, shopVars, dbVars, poolVars, mainVars, web, pages, indexes, clock, dataset, seen,
                 fetched, failed, dequeues, pages0, links0, exitStatus>>

\* The steps the two crawlers share with each other and with the primary one.
DirCommonStep(p) ==
  \/ DirDequeue(p)
  \/ Fetch(p)
  \/ InsertFail(p)
  \/ DirInsertPage(p)
  \/ DirInsertEdges(p)
  \/ Finish(p)
  \/ Exit(p)

\* The crawler of lines 366-529, run again and again: its lookup and its
\* retry of a stored failure (lines 431-444) are lines 70-83 of the primary
\* crawler.
NextDir ==
  \/ \E d \in RunDatasets : StartAlone(d)
  \/ DirCommonStep("r1")
  \/ FindOne("r1")
  \/ DeleteOne("r1")
  \/ DeleteMany("r1")

SpecDir == Init /\ [][NextDir]_vars

\* The crawler of lines 531-687, run again and again.
NextEarliest ==
  \/ \E d \in RunDatasets : StartAlone(d)
  \/ DirCommonStep("r1")
  \/ EarliestFindOne("r1")

SpecEarliest == Init /\ [][NextEarliest]_vars

(***************************************************************************)
(* db.js on its own: a process loads the module and calls connectDB and    *)
(* the collection accessors one after the other, as main of crawler.js and *)
(* the start-up of index.js do.  dbCalls[p] is the list of the calls made  *)
(* to the module and to client.connect, each with its outcome.             *)
(***************************************************************************)
MaxCalls == 4

\* db.js line 10: `let db;`
NoDb == 0

Accessors == {"productsCol", "ordersCol", "pagesCol", "linksCol"}

\* The error field of a call that returned.
NoThrow == "(none)"

Called(fn, error, handle) == [fn |-> fn, error |-> error, handle |-> handle]

\* Fault: connectDB without its test of db.
ConnectsEveryTime(d) == TRUE

\* db.js line 13: `if (!db)`.
NeedsConnect(d) == d = NoDb

\* db.js lines 21-40: `if (!db) throw new Error("DB not connected")`, else the
\* collection of the handle.
accessor(name, d) ==
  IF d = NoDb THEN Called(name, "DB not connected", NoDb)
              ELSE Called(name, NoThrow, d)

\* db.js lines 1-10, loaded by require("./db"): the client exists, db is undefined.
Require(p) ==
  /\ \A q \in Procs : pc[q] \in {"idle", "exited"}
  /\ clock < MaxRuns
  /\ clock' = clock + 1
  /\ pc' = [pc EXCEPT ![p] = "loaded"]
  /\ db' = [db EXCEPT ![p] = NoDb]
  /\ dbCalls' = [dbCalls EXCEPT ![p] = <<>>]
  /\ connects' = [connects EXCEPT ![p] = 0]
  /\ exitStatus' = [exitStatus EXCEPT ![p] = NoExit]
  /\ UNCHANGED <<pureVars, shopVars, poolVars, argv, todo, returned, usage, web, store, dataset, queue, seen, cur,
                 history>>

\* db.js lines 12-14 and 18: connectDB is called; with a handle in db it
\* returns it, without one it calls client.connect() and waits.
CallConnectDB(p) ==
  /\ pc[p] = "loaded"
  /\ Len(dbCalls[p]) < MaxCalls
  /\ IF NeedsConnect(db[p])
       THEN /\ dbCalls' = [dbCalls EXCEPT ![p] = Append(@, Called("client.connect", NoThrow, NoDb))]
            /\ pc' = [pc EXCEPT ![p] = "connecting"]
       ELSE /\ dbCalls' = [dbCalls EXCEPT ![p] = Append(@, Called("connectDB", NoThrow, db[p]))]
            /\ pc' = pc
  /\ UNCHANGED <<pureVars, shopVars, db, poolVars, mainVars, web, store, clock, dataset, queue, seen, cur, history,
                 exitStatus>>

\* db.js lines 14-18: client.connect() resolved; client.db() makes the handle,
\* which is stored in db and returned.
ConnectResolves(p) ==
  /\ pc[p] = "connecting"
  /\ connects' = [connects EXCEPT ![p] = @ + 1]
  /\ db' = [db EXCEPT ![p] = connects[p] + 1]
  /\ dbCalls' = [dbCalls EXCEPT ![p] = Append(@, Called("connectDB", NoThrow, connects[p] + 1))]
  /\ pc' = [pc EXCEPT ![p] = "loaded"]
  /\ UNCHANGED <<pureVars, shopVars, poolVars, argv, todo, returned, usage, web, store, clock, dataset, queue, seen, cur,
                 history, exitStatus>>

\* db.js line 14: client.connect() rejected, and connectDB with it; db stays
\* undefined.  The callers (crawler.js lines 170-173, index.js lines 389-392)
\* end the process.
ConnectRejects(p) ==
  /\ pc[p] = "connecting"
  /\ dbCalls' = [dbCalls EXCEPT ![p] = Append(@, Called("connectDB", "connect failed", NoDb))]
  /\ pc' = [pc EXCEPT ![p] = "threw"]
  /\ UNCHANGED <<pureVars, shopVars, db, poolVars, mainVars, web, store, clock, dataset, queue, seen, cur, history,
                 exitStatus>>

\* db.js lines 21-40: one of the accessors is called.  A throw is caught by
\* the caller, which goes on.
CallAccessor(p, name) ==
  /\ pc[p] = "loaded"
  /\ Len(dbCalls[p]) < MaxCalls
  /\ dbCalls' = [dbCalls EXCEPT ![p] = Append(@, accessor(name, db[p]))]
  /\ UNCHANGED <<pureVars, shopVars, db, poolVars, mainVars, web, store, clock, dataset, queue, seen, cur, history, pc,
                 exitStatus>>

\* crawler.js lines 162-167: the client has made its calls and main goes on
\* to process.exit(0).
ClientReturns(p) ==
  /\ pc[p] = "loaded"
  /\ pc' = [pc EXCEPT ![p] = "done"]
  /\ UNCHANGED <<pureVars, shopVars, dbVars, poolVars, mainVars, web, store, clock, dataset, queue, seen, cur, history,
                 exitStatus>>

\* One process at a time loads the module; its state is the module's own.
NextDb ==
  \/ Require("r1")
  \/ CallConnectDB("r1")
  \/ ConnectResolves("r1")
  \/ ConnectRejects("r1")
  \/ \E name \in Accessors : CallAccessor("r1", name)
  \/ ClientReturns("r1")
  \/ Exit("r1")

SpecDb == InitFew /\ [][NextDb]_vars

(***************************************************************************)
(* The catalog service, POST /orders (index.js lines 239-344): requests    *)
(* are handled concurrently and interleave at the awaits of the handler.   *)
(* A productId is the string the client wrote; new ObjectId() turns it     *)
(* into the _id the products collection is searched with.                  *)
(***************************************************************************)
MaxQty == 2
MaxStock == 2

\* Strings a client can write as productId: the 24 hex digits of product pa
\* in lower case and in upper case, those of product pb, 24 hex digits that
\* are the _id of no product, and a string that is no ObjectId.
WrittenIds == {"a", "A", "b", "c", "zz"}

\* What new ObjectId(s) throws on a string that is not 12 bytes in hex.
BSONError == "(BSONError)"

\* Line 287, new ObjectId(s): hex digits are read in either case.
ObjectId(s) ==
  CASE s \in {"a", "A"} -> "pa"
    [] s = "b" -> "pb"
    [] s = "c" -> "pc"
    [] OTHER -> BSONError

\* s.trim().length === 0
Blank(s) == s \in {"", " "}

\* Lines 251-274: the body has a problem.
HasProblems(body) ==
  \/ Blank(body.customerName)
  \/ body.items = <<>>
  \/ \E k \in 1..Len(body.items) : Blank(body.items[k].productId) \/ body.items[k].quantity <= 0

\* Lines 239-246: the lines of one productId string become one line with the
\* sum of their quantities, at the place of the first of them.
RECURSIVE normalizeOrderItems(_)
normalizeOrderItems(items) ==
  IF items = <<>>
    THEN <<>>
    ELSE LET before == normalizeOrderItems(SubSeq(items, 1, Len(items) - 1))
             it == items[Len(items)]
             same == {k \in 1..Len(before) : before[k].productId = it.productId}
         IN IF same = {}
              THEN Append(before, [productId |-> it.productId, quantity |-> it.quantity])
              ELSE [k \in 1..Len(before) |->
                      IF k \in same THEN [before[k] EXCEPT !.quantity = @ + it.quantity]
                                    ELSE before[k]]

\* The bodies the requests are sent with.
OrderLines == [productId : WrittenIds, quantity : 1..MaxQty]
Orders(first) ==
  [customerName : {"Ann"},
   items : {<<l>> : l \in OrderLines}
           \cup {<<l, k>> : l \in {o \in OrderLines : o.productId \in first}, k \in OrderLines}]
InvalidOrders ==
  {[customerName |-> " ", items |-> <<[productId |-> "a", quantity |-> 1]>>],
   [customerName |-> "Ann", items |-> <<>>],
   [customerName |-> "Ann", items |-> <<[productId |-> " ", quantity |-> 1]>>],
   [customerName |-> "Ann", items |-> <<[productId |-> "a", quantity |-> 0]>>]}
Bodies(r) ==
  IF r = "q1"
    THEN Orders({"a"}) \cup InvalidOrders
    ELSE {o \in Orders({"b"}) : \A k \in 1..Len(o.items) : o.items[k].productId \in {"a", "b"}}

\* res.status(409).json(...) and return.
Rejected(q) == [q EXCEPT !.pc = "responded", !.status = 409]

\* Lines 284-293, the start of an iteration of the first loop: the id is
\* parsed, and findOne is called when it is one.
ParseId(q, k) ==
  IF ObjectId(q.normalized[k].productId) = BSONError
    THEN Rejected(q)
    ELSE [q EXCEPT !.pc = "findOne", !.i = k]

\* Lines 248-293: a request arrives; the handler runs to its first await or
\* to a 409.
Post(r, body) ==
  /\ req[r].pc = "free"
  /\ LET q == [NoRequest EXCEPT !.body = body]
     IN req' = [req EXCEPT ![r] =
                  IF HasProblems(body)
                    THEN Rejected(q)
                    ELSE ParseId([q EXCEPT !.normalized = normalizeOrderItems(body.items)], 1)]
  /\ UNCHANGED <<pureVars, dbVars, poolVars, mainVars, stock, orders, web, store, clock, pc, dataset, queue, seen,
                 cur, history, exitStatus>>

\* Lines 295-303 and 284-293: findOne resolved; a missing product is a 409,
\* a found one is kept with the stock it had, and the loop goes on to the
\* next id or to the first updateOne.
FindProduct(r) ==
  /\ req[r].pc = "findOne"
  /\ LET q == req[r]
         it == q.normalized[q.i]
         id == ObjectId(it.productId)
         found == [q EXCEPT !.parsed = Append(@, [id |-> id, quantity |-> it.quantity,
                                                   available |-> stock[id]])]
     IN req' = [req EXCEPT ![r] =
                  IF id \notin Products
                    THEN Rejected(q)
                    ELSE IF q.i < Len(q.normalized)
                           THEN ParseId(found, q.i + 1)
                           ELSE [found EXCEPT !.pc = "updateOne", !.i = 1]]
  /\ UNCHANGED <<pureVars, dbVars, poolVars, mainVars, stock, orders, web, store, clock, pc, dataset, queue, seen,
                 cur, history, exitStatus>>

\* Line 309: the filter { stock: { $gte: quantity } } of the update.
Matches(available, quantity) == available >= quantity

\* Lines 308-321: one updateOne, the test and the decrement in one step of the
\* store; without a match the handler answers 409, with one it goes on to
\* the next item or to the insert of the order.
UpdateStock(r) ==
  /\ req[r].pc = "updateOne"
  /\ LET q == req[r]
         it == q.parsed[q.i]
     IN IF Matches(stock[it.id], it.quantity)
          THEN /\ stock' = [stock EXCEPT ![it.id] = @ - it.quantity]
               /\ req' = [req EXCEPT ![r] =
                            [q EXCEPT !.taken[it.id] = @ + it.quantity,
                                      !.pc = IF q.i < Len(q.parsed) THEN "updateOne" ELSE "insertOne",
                                      !.i = q.i + 1]]
          ELSE /\ stock' = stock
               /\ req' = [req EXCEPT ![r] = Rejected(q)]
  /\ UNCHANGED <<pureVars, dbVars, poolVars, mainVars, orders, web, store, clock, pc, dataset, queue, seen, cur,
                 history, exitStatus>>

\* Lines 324-333: the order document; `by` stands for its _id.
orderDoc(r, q) ==
  [by |-> r, customerName |-> q.body.customerName,
   items |-> [k \in 1..Len(q.parsed) |-> [productId |-> q.parsed[k].id, quantity |-> q.parsed[k].quantity]]]

\* Lines 335-343: insertOne resolved and the handler answers 201.
InsertOrder(r) ==
  /\ req[r].pc = "insertOne"
  /\ orders' = Append(orders, orderDoc(r, req[r]))
  /\ req' = [req EXCEPT ![r] = [@ EXCEPT !.pc = "responded", !.status = 201]]
  /\ UNCHANGED <<pureVars, dbVars, poolVars, mainVars, stock, web, store, clock, pc, dataset, queue, seen, cur,
                 history, exitStatus>>

NextShop ==
  \/ \E r \in Requests : \E body \in Bodies(r) : Post(r, body)
  \/ \E r \in Requests : FindProduct(r)
  \/ \E r \in Requests : UpdateStock(r)
  \/ \E r \in Requests : InsertOrder(r)

\* Every product has a stock that is an integer >= 0 (lines 60-62 of
\* part_001, the validation of a new product).
InitShop ==
  /\ NothingRuns
  /\ web = WebScenario
  /\ normInput = DATASETS["tinyfruits"]
  /\ normResults = <<>>
  /\ NoRequests
  /\ stock \in [Products -> 0..MaxStock]

SpecShop == InitShop /\ [][NextShop]_vars

(***************************************************************************)
(* The in-memory catalog (unnamed/part_001): productId is the integer id   *)
(* of a product of the array, and the handler of POST /orders has no await.*)
(***************************************************************************)
\* part_001 lines 13-28: the products with id 0 and id 1.
findProductById(id) ==
  CASE id = 0 -> "pa"
    [] id = 1 -> "pb"
    [] OTHER -> "(undefined)"

\* part_001 lines 66-95.
validateOrderBody(body) ==
  /\ ~Blank(body.customerName)
  /\ body.items # <<>>
  /\ \A k \in 1..Len(body.items) : body.items[k].quantity > 0

\* part_001 lines 98-123: the lines of one id are summed; every id has to be
\* the id of a product with that much stock.
checkOrderStockAndExistence(items) ==
  LET qtyByProductId == normalizeOrderItems(items)
  IN [ok |-> \A k \in 1..Len(qtyByProductId) :
               /\ findProductById(qtyByProductId[k].productId) \in Products
               /\ stock[findProductById(qtyByProductId[k].productId)] >= qtyByProductId[k].quantity,
      normalizedItems |-> qtyByProductId]

\* The bodies sent to the in-memory service; 7 is the id of no product.
MemoryLines == [productId : {0, 1, 7}, quantity : 1..MaxQty]
MemoryBodies ==
  [customerName : {"Ann"},
   items : {<<l>> : l \in MemoryLines}
           \cup {<<l, k>> : l \in {o \in MemoryLines : o.productId = 0}, k \in MemoryLines}]
  \cup {[customerName |-> " ", items |-> <<[productId |-> 0, quantity |-> 1]>>],
        [customerName |-> "Ann", items |-> <<>>],
        [customerName |-> "Ann", items |-> <<[productId |-> 0, quantity |-> 0]>>]}

\* part_001 lines 316-362, the whole handler: 409 on a problem, else every
\* product is decremented and the order is pushed.
PostInMemory(r, body) ==
  /\ req[r].pc = "free"
  /\ LET q == [NoRequest EXCEPT !.body = body]
         check == checkOrderStockAndExistence(body.items)
         taken == [product \in Products |->
                     LET at == {k \in 1..Len(check.normalizedItems) :
                                  findProductById(check.normalizedItems[k].productId) = product}
                     IN IF at = {} THEN 0 ELSE check.normalizedItems[CHOOSE k \in at : TRUE].quantity]
     IN IF ~validateOrderBody(body) \/ ~check.ok
          THEN /\ req' = [req EXCEPT ![r] = Rejected(q)]
               /\ UNCHANGED <<stock, orders>>
          ELSE /\ stock' = [product \in Products |-> stock[product] - taken[product]]
               /\ orders' = Append(orders, [by |-> r, customerName |-> body.customerName,
                                            items |-> check.normalizedItems])
               /\ req' = [req EXCEPT ![r] = [q EXCEPT !.pc = "responded", !.status = 201, !.taken = taken]]
  /\ UNCHANGED <<pureVars, dbVars, poolVars, mainVars, web, store, clock, pc, dataset, queue, seen, cur, history,
                 exitStatus>>

NextShopInMemory == \E r \in Requests : \E body \in MemoryBodies : PostInMemory(r, body)

SpecShopInMemory == InitShop /\ [][NextShopInMemory]_vars

(***************************************************************************)
(* normalizeUrl on its own: called on a parseable absolute URL, then on    *)
(* its own result.                                                         *)
(***************************************************************************)
UrlHosts == {Host, "external.example"}
\* Path and query: none, ending in no, one or two "/".
UrlPaths ==
  {<<>>, <<"/">>, <<"/", "/">>, <<"/", "a">>, <<"/", "a", "/">>, <<"/", "a", "/", "/">>,
   <<"/", "a", "/", "b.html">>, <<"/", "a", "?q=", "/">>, <<"/", "a", "?q=", "/", "/">>}
UrlHashes == {<<>>, <<"#">>, <<"#", "top">>, <<"#", "/">>}

AbsoluteUrls ==
  {<<s, "//", h>> \o path \o hash :
     s \in Schemes, h \in UrlHosts, path \in UrlPaths, hash \in UrlHashes}

\* normalizeUrl is called at most this many times in a row.
MaxApplications == 2

InitNormalize ==
  /\ NothingRuns
  /\ NoRequests
  /\ stock = [product \in Products |-> 0]
  /\ web = WebScenario
  /\ normInput \in AbsoluteUrls
  /\ normResults = <<>>

\* normalizeUrl(u), then normalizeUrl of what it returned.
Normalize ==
  /\ Len(normResults) < MaxApplications
  /\ normResults' = Append(normResults,
       normalizeUrl(IF normResults = <<>> THEN normInput
                    ELSE normResults[Len(normResults)]))
  /\ UNCHANGED <<normInput, shopVars, dbVars, mainVars, poolVars, web, store, clock, pc, dataset, queue, seen, cur, history,
                 exitStatus>>

SpecNormalize == InitNormalize /\ [][Normalize]_vars

(***************************************************************************)
(* Notions the properties below are stated with                            *)
(***************************************************************************)
RootOf(d) == siteRootFromSeed(DATASETS[d])
PageUrls(pg, d) == {doc.url : doc \in {x \in BagToSet(pg) : x.dataset = d}}
PagesAt(pg, d, u) == {doc \in BagToSet(pg) : PageMatches(doc, d, u)}
EdgesFrom(lk, d, u) == {e \in BagToSet(lk) : e.dataset = d /\ e.from = u}
\* The number of stored documents of key (d, u), copies counted.
CountAt(pg, d, u) ==
  LET docs == PagesAt(pg, d, u)
      RECURSIVE Sum(_)
      Sum(S) == IF S = {} THEN 0
                ELSE LET x == CHOOSE x \in S : TRUE
                     IN CopiesIn(x, pg) + Sum(S \ {x})
  IN Sum(docs)
Running(p) == pc[p] # "idle"
Returned(p) == pc[p] = "done"
\* crawlDataset has not returned and has not thrown.
InLoop(p) == pc[p] \notin {"idle", "done", "threw", "exited"}

\* A stored record the resume check takes for complete.
CompleteDoc(doc) == doc.status = 200 /\ Truthy(doc.html)
CompleteIn(pg, d, u) == \E doc \in PagesAt(pg, d, u) : CompleteDoc(doc)

\* The canonical URLs page u links to: its resolvable hrefs, canonicalized.
PageLinks(u) ==
  IF u \in DOMAIN web
    THEN LET ok == SelectSeq(Anchors(web[u]), LAMBDA href : CanResolve(href, u))
         IN {normalizeUrl(UrlToString(ResolveUrl(ok[i], u))) : i \in 1..Len(ok)}
    ELSE {}

RECURSIVE Closure(_, _, _)
\* The least set that holds `from` and is closed under Succ, in at most n rounds.
Closure(from, Succ(_), n) ==
  LET more == from \cup UNION {Succ(u) : u \in from}
  IN IF n = 0 \/ more = from THEN from ELSE Closure(more, Succ, n - 1)

ClosureRounds == 8

\* The in-boundary canonical URLs reachable from the seed of d through
\* in-boundary pages.
ReachableCanonical(d) ==
  LET Succ(u) == {l \in PageLinks(u) : StartsWith(l, RootOf(d))}
  IN Closure({normalizeUrl(DATASETS[d])}, Succ, ClosureRounds)

\* The URLs a crawl of d can come to fetch: a link is normalized once when
\* it is extracted and once more when it is dequeued, and a page whose
\* extraction throws yields no link.
Discoverable(d) ==
  LET Succ(u) ==
        IF u \in DOMAIN web /\ extractLinks(web[u], u).ok
          THEN {normalizeUrl(l) : l \in
                  {x \in Range(extractLinks(web[u], u).links) :
                     StartsWith(x, RootOf(d)) /\ StartsWith(normalizeUrl(x), RootOf(d))}}
          ELSE {}
  IN Closure({normalizeUrl(DATASETS[d])}, Succ, ClosureRounds)

(***************************************************************************)
(* Properties                                                              *)
(***************************************************************************)
\* C1: at every moment of any sequence of crawl runs, also of two runs that
\* overlap in time, the pages collection holds at most one document for each
\* (dataset, url) pair.
C1_NoDuplicatePages ==
  \A doc \in BagToSet(pages) : CountAt(pages, doc.dataset, doc.url) = 1

\* C1 witness: a run has returned that found a record of an earlier attempt
\* for a URL and stored its own record for that URL.
C1_Witness ==
  \E p \in Procs : \E doc \in BagToSet(pages) :
    /\ Returned(p)
    /\ doc.fetchedAt = clock
    /\ PagesAt(pages0[p], doc.dataset, doc.url) # {}
    /\ doc \notin BagToSet(pages0[p])

\* C2: within one run no URL is passed to axios.get twice, whatever the
\* outcome of its first fetch.
C2_FetchedAtMostOnce ==
  \A p \in Procs : \A i, j \in 1..Len(fetched[p]) :
    i # j => fetched[p][i] # fetched[p][j]

\* C2 witness: a run has returned in which a URL that two pages link to was
\* pushed by both and its fetch failed.
C2_Witness ==
  \E p \in Procs : \E u \in failed[p] :
    /\ Returned(p)
    /\ Cardinality({pr \in pushed[p] : normalizeUrl(pr[2]) = u}) >= 2

\* C3: every URL fetched and every URL of a stored page record starts with
\* the site root of its dataset.
C3_NeverOutsideBoundary ==
  /\ \A p \in Procs : \A i \in 1..Len(fetched[p]) :
       StartsWith(fetched[p][i], RootOf(dataset[p]))
  /\ \A doc \in BagToSet(pages) : StartsWith(doc.url, RootOf(doc.dataset))

\* C3 witness: a run has returned that stored a fetched page with a link
\* that leaves the subtree.
C3_Witness ==
  \E p \in Procs : \E doc \in BagToSet(pages) :
    /\ Returned(p)
    /\ doc.dataset = dataset[p]
    /\ doc.status = 200
    /\ \E l \in PageLinks(doc.url) : ~StartsWith(l, RootOf(doc.dataset))

\* C4: the `to` of every stored edge and every element of the outLinks of
\* every stored page record starts with the site root of its dataset.
C4_EdgesAndOutLinksInBoundary ==
  /\ \A e \in BagToSet(links) : StartsWith(e.to, RootOf(e.dataset))
  /\ \A doc \in BagToSet(pages) : \A i \in 1..Len(doc.outLinks) :
       StartsWith(doc.outLinks[i], RootOf(doc.dataset))

\* C4 witness: a page that links both inside and outside the subtree is
\* stored with its edges.
C4_Witness ==
  \E doc \in BagToSet(pages) :
    /\ doc.outLinks # <<>>
    /\ EdgesFrom(links, doc.dataset, doc.url) # {}
    /\ \E l \in PageLinks(doc.url) : ~StartsWith(l, RootOf(doc.dataset))

\* C5: no stored edge has from = to, and no page has pushed its own URL on
\* the queue.
C5_NoSelfEdgeNoSelfPush ==
  /\ \A e \in BagToSet(links) : e.from # e.to
  /\ \A p \in Procs : \A pr \in pushed[p] : pr[1] # pr[2]

\* C5 witness: a page whose outLinks hold its own URL is stored, its edges
\* are stored and its links are pushed.
C5_Witness ==
  \E p \in Procs : \E doc \in BagToSet(pages) :
    /\ \E i \in 1..Len(doc.outLinks) : doc.outLinks[i] = doc.url
    /\ EdgesFrom(links, doc.dataset, doc.url) # {}
    /\ \E pr \in pushed[p] : pr[1] = doc.url

\* The (from, to) pairs of the stored edges of dataset d.
EdgePairs(lk, d) == {<<e.from, e.to>> : e \in {x \in BagToSet(lk) : x.dataset = d}}

\* A first run on an empty store in which every fetch answered 200 with a
\* non-empty body has returned.
FirstRunAllFetched(p) ==
  /\ Returned(p)
  /\ pages0[p] = EmptyBag
  /\ links0[p] = EmptyBag
  /\ failed[p] = {}
  /\ \A i \in 1..Len(fetched[p]) : web[fetched[p][i]] # <<>>

\* C6: when a first run on an empty store returns and every fetch succeeded,
\* the stored page URLs are exactly the in-boundary canonical URLs reachable
\* from the seed, the stored edges are exactly the (from, to) with `from` a
\* stored page that links to an in-boundary `to` other than itself, and no
\* out-of-boundary link target has a page record or occurs in an edge.
C6_CrawlExact ==
  \A p \in Procs :
    FirstRunAllFetched(p) =>
      LET d == dataset[p]
          urls == PageUrls(pages, d)
          InB(l) == StartsWith(l, RootOf(d))
      IN /\ urls = ReachableCanonical(d)
         /\ EdgePairs(links, d) =
              {pr \in urls \X UNION {PageLinks(u) : u \in urls} :
                 pr[2] \in PageLinks(pr[1]) /\ InB(pr[2]) /\ pr[2] # pr[1]}
         /\ \A u \in urls : \A l \in PageLinks(u) :
              ~InB(l) => /\ l \notin urls
                         /\ \A pr \in EdgePairs(links, d) : l # pr[1] /\ l # pr[2]

\* C7: a run makes at most as many queue.shift() calls as there are
\* in-boundary canonical URLs reachable from the seed.
C7_DequeuesBounded ==
  \A p \in Procs :
    Running(p) => dequeues[p] <= Cardinality(ReachableCanonical(dataset[p]))

\* C8: a URL whose stored record is complete (status 200, non-empty html)
\* when a run starts is not fetched by the run, and its page record and the
\* edges from it stay as they were.
C8_CompleteIsSkipped ==
  \A p \in Procs : \A doc \in BagToSet(pages0[p]) :
    (Running(p) /\ doc.dataset = dataset[p] /\ CompleteDoc(doc)) =>
      /\ doc.url \notin Range(fetched[p])
      /\ PagesAt(pages, doc.dataset, doc.url) = {doc}
      /\ EdgesFrom(links, doc.dataset, doc.url) = EdgesFrom(links0[p], doc.dataset, doc.url)

\* C8 witness: a rerun has dequeued a URL whose record was complete, gone
\* through the lookup and returned.
C8_Witness ==
  \E p \in Procs : \E doc \in BagToSet(pages0[p]) :
    /\ Returned(p)
    /\ doc.dataset = dataset[p]
    /\ CompleteDoc(doc)
    /\ doc.url \in seen[p]

\* A failure record: html null and an error message.
FailedDoc(doc) == doc.html.isNull /\ doc.error # Absent

\* A rerun in which no fetch failed has returned.
RerunReturned(p) == Returned(p) /\ pages0[p] # EmptyBag /\ failed[p] = {}

\* C9: when a rerun returns, every discoverable URL whose record was a
\* failure when the rerun started has exactly one page record, written by
\* the rerun, and the edges from it are those of that record's links.
C9_ResumeCorrect ==
  \A p \in Procs : \A old \in BagToSet(pages0[p]) :
    ( /\ RerunReturned(p)
      /\ old.dataset = dataset[p]
      /\ FailedDoc(old)
      /\ old.url \in Discoverable(dataset[p]) ) =>
      /\ CountAt(pages, old.dataset, old.url) = 1
      /\ \A doc \in PagesAt(pages, old.dataset, old.url) :
           /\ doc.fetchedAt = clock
           /\ {e.to : e \in EdgesFrom(links, doc.dataset, doc.url)} =
                Range(doc.outLinks) \ {doc.url}

\* C10: when a rerun returns, it has fetched every discoverable URL whose
\* record was missing or a failure when it started, and no URL whose record
\* was complete.
C10_RerunFetchesIncomplete ==
  \A p \in Procs :
    RerunReturned(p) =>
      LET d == dataset[p] IN
      /\ \A u \in Discoverable(d) :
           (\A doc \in PagesAt(pages0[p], d, u) : FailedDoc(doc)) =>
             u \in Range(fetched[p])
      /\ \A u \in Range(fetched[p]) : ~CompleteIn(pages0[p], d, u)

\* The HTTP statuses an error response of the modelled server carries.
ErrorStatuses == {404}

\* C11: when the fetch of a URL failed in a run, the page record the run
\* inserted for it has status 0 or the received HTTP status, html null,
\* empty outLinks and a non-empty error; the store holds no edge from that
\* URL and the run has pushed no URL from it.
C11_FetchFailureRecorded ==
  \A p \in Procs : \A u \in failed[p] :
    LET d == dataset[p] IN
    /\ cur[p].norm # u => CountAt(pages, d, u) = 1
    /\ \A doc \in PagesAt(pages, d, u) :
         /\ doc.status \in {0} \cup ErrorStatuses
         /\ doc.html = Null
         /\ doc.outLinks = <<>>
         /\ doc.error \notin {Absent, ""}
         /\ doc.fetchedAt = clock
    /\ EdgesFrom(links, d, u) = {}
    /\ \A pr \in pushed[p] : pr[1] # u

\* C11 witness: a run has returned in which the fetch of a URL another
\* page links to was answered with an error status, after the fetch of the
\* linking page had succeeded.
C11_Witness ==
  \E p \in Procs : \E u \in failed[p] :
    /\ Returned(p)
    /\ \E pr \in pushed[p] : pr[2] = u
    /\ \E doc \in PagesAt(pages, dataset[p], u) : doc.status \in ErrorStatuses

\* The URL was looked at by the loop: it passed the boundary and seen checks
\* and the resume check either skipped it as complete or had it fetched.
Processed(p, u) ==
  /\ u \in seen[p]
  /\ u \in Range(fetched[p]) \/ CompleteIn(pages0[p], dataset[p], u)

\* C12: a fetch failure is local to its URL: the step that records the
\* failure leaves the queue as it is and goes back to the loop, a run in
\* which a fetch failed returns, and when it has returned every in-boundary
\* URL that was pushed has been processed.
C12_FetchFailureIsLocal ==
  /\ [][\A p \in Procs :
          pc[p] = "insertFail" => pc'[p] = "loop" /\ queue'[p] = queue[p]]_vars
  /\ \A p \in Procs : (failed[p] # {} /\ InLoop(p)) ~> Returned(p)
  /\ [](\A p \in Procs : \A pr \in pushed[p] :
          (Returned(p) /\ InBoundary(normalizeUrl(pr[2]), siteRoot(p))) =>
            Processed(p, normalizeUrl(pr[2])))

\* C12 witness: a run has returned in which a fetch failed and a URL that
\* was in the queue at that time was fetched afterwards.
C12_Witness ==
  \E p \in Procs : \E i, j \in 1..Len(fetched[p]) :
    /\ Returned(p)
    /\ i < j
    /\ fetched[p][i] \in failed[p]
    /\ fetched[p][j] \notin failed[p]
    /\ \E pr \in pushed[p] : pr[2] = fetched[p][j] /\ pr[1] # fetched[p][i]

\* Run p is at the page insert and a record of the URL is stored under the
\* unique index: the insert meets a duplicate key.
PageConflict(p) ==
  /\ pc[p] \in {"insertFail", "insertPage"}
  /\ PagesIndex \in indexes
  /\ PagesAt(pages, dataset[p], cur[p].norm) # {}

\* Run p is at the bulk insert and one of its edges is stored under the
\* unique index.
EdgeConflict(p) ==
  /\ pc[p] = "insertEdges"
  /\ LinksIndex \in indexes
  /\ \E e \in Range(EdgesOf(cur[p].withinSite, cur[p].norm, dataset[p])) : BagIn(e, links)

\* C13: a step of a run whose page insert or bulk edge insert meets a
\* duplicate key does not make crawlDataset throw and leaves the stored
\* documents as they were; after a failure record the run is back at the
\* loop head, after a page record it goes on to the edge insert or the
\* enqueue, and after the edge insert it has pushed the page's links.
C13_DuplicateKeySwallowed ==
  [][\A p \in Procs :
       /\ (PageConflict(p) /\ pc'[p] # pc[p]) =>
            /\ pc'[p] # "threw"
            /\ pages' = pages
            /\ pc[p] = "insertFail" => pc'[p] = "loop" /\ queue'[p] = queue[p]
            /\ pc[p] = "insertPage" =>
                 \/ pc'[p] = "insertEdges"
                 \/ /\ pc'[p] = "loop"
                    /\ queue'[p] = queue[p] \o
                         ToPush(WithinSite(cur[p].outLinks, siteRoot(p)), cur[p].norm)
       /\ (EdgeConflict(p) /\ pc'[p] # pc[p]) =>
            /\ pc'[p] = "loop"
            /\ \A e \in BagToSet(links) : CopiesIn(e, links') = CopiesIn(e, links)
            /\ \A e \in Range(EdgesOf(cur[p].withinSite, cur[p].norm, dataset[p])) :
                 CopiesIn(e, links') = 1
            /\ queue'[p] = queue[p] \o ToPush(cur[p].withinSite, cur[p].norm)]_vars

\* Both runs crawl the same dataset and both have pushed the links of page
\* u: both have passed the page insert and the bulk edge insert of u, and
\* the later of the two met duplicate keys at both.
BothPushedFrom(u) ==
  /\ dataset["r1"] = dataset["r2"]
  /\ \A p \in Procs : \E pr \in pushed[p] : pr[1] = u

\* C13 witness: both runs have stored a page with links and gone on, and
\* the page has one record.
C13_Witness ==
  \E u \in PageUrls(pages, dataset["r1"]) :
    /\ BothPushedFrom(u)
    /\ CountAt(pages, dataset["r1"], u) = 1

\* C14: a store error that is no duplicate-key conflict, at any store
\* operation of the loop, and a failed connection make crawlDataset reject;
\* once it has rejected the run dequeues nothing, fetches nothing and writes
\* nothing, and the process exits, with status 1.
C14_StoreErrorIsFatal ==
  /\ [][\A p \in Procs :
          /\ (StoreFails(p) \/ \E d \in RunDatasets : ConnectFails(p, d)) =>
               pc'[p] = "threw"
          /\ pc[p] = "threw" =>
               /\ UNCHANGED <<queue, dequeues, fetched, store>>
               /\ pc'[p] \in {"threw", "exited"}
               /\ pc'[p] = "exited" => exitStatus'[p] = {1}]_vars
  /\ \A p \in Procs : (pc[p] = "threw") ~> (pc[p] = "exited" /\ exitStatus[p] = {1})

\* C14 witness: the process has exited with status 1 after the bulk edge
\* insert failed while links of the page were still to be pushed.
C14_Witness ==
  \E p \in Procs :
    /\ exitStatus[p] = {1}
    /\ cur[p].withinSite # <<>>
    /\ queue[p] = <<>>
    /\ fetched[p] # <<>>

\* C15 as stated: whatever the outcome of the bulk edge insert of a page,
\* the step that ends it pushes the page's in-boundary links.
C15_EdgeFailureDoesNotBlock ==
  [][\A p \in Procs :
       (pc[p] = "insertEdges" /\ pc'[p] # pc[p]) =>
         queue'[p] = queue[p] \o ToPush(cur[p].withinSite, cur[p].norm)]_vars

\* C15, amended: a bulk edge insert that succeeds or meets duplicate keys,
\* whether or not it stored an edge, is followed by the push of the page's
\* in-boundary links, and when the run has returned every one of them that
\* is in the boundary has been processed (fetched, or skipped because its
\* record, stored before the run or by the other run, is complete); a bulk
\* insert that fails with another error pushes nothing (it is fatal, C14).
C15_DuplicateEdgesDoNotBlock ==
  /\ [][\A p \in Procs :
          /\ InsertEdges(p) =>
               /\ pc'[p] = "loop"
               /\ queue'[p] = queue[p] \o ToPush(cur[p].withinSite, cur[p].norm)
          /\ EdgeInsertFails(p) => pc'[p] = "threw" /\ queue'[p] = queue[p]]_vars
  /\ [](\A p \in Procs : \A pr \in pushed[p] :
          (Returned(p) /\ InBoundary(normalizeUrl(pr[2]), siteRoot(p))) =>
            \/ Processed(p, normalizeUrl(pr[2]))
            \/ /\ normalizeUrl(pr[2]) \in seen[p]
               /\ CompleteIn(pages, dataset[p], normalizeUrl(pr[2])))

\* C15 witness: both runs have pushed a link of the same page, so the bulk
\* insert of the later one stored no edge for it; the edge is stored once
\* and that run has fetched the link target and returned.
C15_Witness ==
  \E p \in Procs : \E pr \in pushed[p] :
    /\ BothPushedFrom(pr[1])
    /\ \A q \in Procs : pr \in pushed[q]
    /\ CopiesIn([dataset |-> dataset[p], from |-> pr[1], to |-> pr[2]], links) = 1
    /\ normalizeUrl(pr[2]) \in Range(fetched[p])
    /\ Returned(p)

\* Page u is served with an href that new URL(href, u) throws on.
HasBadHref(u) ==
  u \in DOMAIN web /\ \E i \in 1..Len(web[u]) :
    web[u][i] # <<>> /\ ~CanResolve(web[u][i], u)

\* The iteration of run p for u is over and its fetch was answered with 200.
FetchedOk(p, u) ==
  u \in Range(fetched[p]) /\ u \notin failed[p] /\ cur[p].norm # u

\* C16: a fetched page with an href that cannot be resolved has a successful
\* page record whose outLinks are the in-boundary links of its other hrefs,
\* and those links (the page itself apart) have been pushed.
C16_BadHrefSkipped ==
  \A p \in Procs : \A u \in Range(fetched[p]) :
    (FetchedOk(p, u) /\ HasBadHref(u)) =>
      LET valid == {l \in PageLinks(u) : StartsWith(l, RootOf(dataset[p]))}
      IN /\ \E doc \in PagesAt(pages, dataset[p], u) :
              /\ doc.status = 200
              /\ doc.error = Absent
              /\ Range(doc.outLinks) = valid
         /\ \A l \in valid \ {u} : <<u, l>> \in pushed[p]

\* The fetch of u by run p was answered and extractLinks threw on the body.
ExtractionThrew(p, u) ==
  u \in Range(fetched[p]) /\ u \notin failed[p] /\ HasBadHref(u)

\* C17: a page whose link extraction threw is never stored as a successful
\* record, and once its iteration is over it has exactly one record, a
\* failure record: html null, outLinks empty, an error message.
C17_ExtractionFailureRecorded ==
  \A p \in Procs : \A u \in Range(fetched[p]) :
    ExtractionThrew(p, u) =>
      /\ cur[p].norm # u => CountAt(pages, dataset[p], u) = 1
      /\ \A doc \in PagesAt(pages, dataset[p], u) :
           /\ ~CompleteDoc(doc)
           /\ doc.html = Null
           /\ doc.outLinks = <<>>
           /\ doc.error \notin {Absent, ""}
           /\ doc.fetchedAt = clock

\* C17 witness: a run has returned after the extraction of a fetched page
\* threw.
C17_Witness ==
  \E p \in Procs : \E u \in Range(fetched[p]) :
    /\ Returned(p)
    /\ ExtractionThrew(p, u)
    /\ PagesAt(pages, dataset[p], u) # {}

\* C18: the queue of a run holds no two entries with the same canonical URL
\* and no entry whose canonical URL is marked seen.
C18_QueueHoldsNoSeenNoTwice ==
  \A p \in Procs :
    /\ \A i, j \in 1..Len(queue[p]) :
         i # j => normalizeUrl(queue[p][i]) # normalizeUrl(queue[p][j])
    /\ \A i \in 1..Len(queue[p]) : normalizeUrl(queue[p][i]) \notin seen[p]

\* The canonical URLs of the queue entries of run p, in the order of their
\* push (the seed first).
PushOrder(p) == [i \in 1..Len(pushLog[p]) |-> normalizeUrl(pushLog[p][i].link)]

\* C19: the queue is first-in first-out: it holds the entries pushed and not
\* yet shifted, in the order of their push; URLs are fetched in the order
\* of their first push; the entries a page pushed are next to one another in
\* the order of pushes, and the page had been fetched and its record and
\* the edge to each of them stored when they were pushed.
C19_FifoBreadthFirst ==
  \A p \in Procs :
    LET log == pushLog[p]
        order == PushOrder(p)
        d == dataset[p]
    IN /\ dequeues[p] <= Len(log)
       /\ queue[p] = [i \in 1..(Len(log) - dequeues[p]) |-> log[dequeues[p] + i].link]
       /\ \A i, j \in 1..Len(fetched[p]) :
            i < j => IndexOf(order, fetched[p][i]) < IndexOf(order, fetched[p][j])
       /\ \A i, j \in 1..Len(log) : \A k \in i..j :
            log[i].from = log[j].from => log[k].from = log[i].from
       /\ \A i \in 2..Len(log) :
            /\ log[i].from \in Range(fetched[p])
            /\ PagesAt(pages, d, log[i].from) # {}
            /\ <<log[i].from, log[i].link>> \in EdgePairs(links, d)

\* C19 witness: a run has returned in which a page pushed two links that
\* were both fetched, and the first of the two pages pushed its own links
\* behind them.
C19_Witness ==
  \E p \in Procs : \E i, j, k \in 1..Len(pushLog[p]) :
    LET log == pushLog[p] IN
    /\ Returned(p)
    /\ i < j /\ j < k
    /\ log[i].from # <<>>
    /\ log[i].from = log[j].from
    /\ log[i].link # log[j].link
    /\ {log[i].link, log[j].link} \subseteq Range(fetched[p])
    /\ log[k].from = log[i].link

\* C20: normalizeUrl is idempotent: called on its own result for a parseable
\* absolute URL, it returns that result.
C20_NormalizeIdempotent ==
  Len(normResults) >= 2 => normResults[2] = normResults[1]

\* The URL string without its fragment.
WithoutHash(u) ==
  IF IndexOf(u, "#") = 0 THEN u ELSE SubSeq(u, 1, IndexOf(u, "#") - 1)

\* C21: normalizeUrl returns the same string for a URL with any fragment or
\* none, with scheme http or https, and with one more "/" at its end; the
\* result has scheme https, no fragment and does not end with "/".
C21_NormalizeEquivalences ==
  Len(normResults) >= 1 =>
    LET u == normInput
        r == normResults[1]
    IN /\ \A hash \in UrlHashes : normalizeUrl(WithoutHash(u) \o hash) = r
       /\ \A s \in Schemes : normalizeUrl([u EXCEPT ![1] = s]) = r
       /\ normalizeUrl(WithoutHash(u) \o <<"/">>) = r
       /\ r[1] = "https:"
       /\ IndexOf(r, "#") = 0
       /\ ~EndsWith(r, "/")

\* The documents of collection c whose dataset is not d, copies counted.
OtherDatasets(c, d) ==
  LET others == {x \in BagToSet(c) : x.dataset # d}
  IN [x \in others |-> CopiesIn(x, c)]

\* C22: from its start on, a run of crawlDataset(D) leaves the page and edge
\* records of every other dataset as they were, and the record its lookup
\* found and is about to delete is a record of D.
C22_DatasetPartition ==
  \A p \in Procs :
    Running(p) =>
      /\ OtherDatasets(pages, dataset[p]) = OtherDatasets(pages0[p], dataset[p])
      /\ OtherDatasets(links, dataset[p]) = OtherDatasets(links0[p], dataset[p])
      /\ pc[p] = "deleteOne" =>
           \E doc \in BagToSet(pages) :
             /\ doc.dataset = dataset[p]
             /\ doc.url = cur[p].norm
             /\ doc.status = cur[p].existing.status
             /\ doc.html = cur[p].existing.html

\* C22 witness: a run has returned that stored a record for a URL of which
\* another dataset holds a record from an earlier run.
C22_Witness ==
  \E p \in Procs : \E doc, other \in BagToSet(pages) :
    /\ Returned(p)
    /\ doc.dataset = dataset[p]
    /\ other.dataset # dataset[p]
    /\ other.url = doc.url
    /\ doc.fetchedAt = clock
    /\ other.fetchedAt < clock

\* The records of dataset d in a collection.
DatasetPart(c, d) ==
  LET own == {x \in BagToSet(c) : x.dataset = d}
  IN [x \in own |-> CopiesIn(x, c)]

\* The keys the loop of `all` crawls before it crawls name.
KeysBefore(name) == SubSeq(DatasetKeys, 1, IndexOf(DatasetKeys, name) - 1)

\* A step in which process p fetches a URL of dataset d, or in which the
\* records of dataset d change.
Touches(p, d) ==
  \/ DatasetPart(pages', d) # DatasetPart(pages, d)
  \/ DatasetPart(links', d) # DatasetPart(links, d)
  \/ /\ dataset[p] = d
     /\ pc[p] = "fetch"
     /\ pc'[p] \in {"insertPage", "insertFail"}

\* C23: started with `all`, a process fetches for a dataset and changes its
\* records only while that dataset is the one being crawled and the crawls
\* of all the keys before it have returned, in key order; once a crawl has
\* thrown, no further dataset is crawled and the store is left as it is:
\* the one step the process takes is its exit, with a status that is not 0.
C23_AllOneAtATime ==
  [][\A p \in Procs :
       /\ argv[p] = "all" =>
            \A d \in DOMAIN DATASETS :
              Touches(p, d) => Head(todo[p]) = d /\ returned[p] = KeysBefore(d)
       /\ pc[p] = "threw" =>
            /\ todo' = todo
            /\ store' = store
            /\ pc'[p] = "exited"
            /\ 0 \notin exitStatus'[p]]_vars

\* C23 witness: `all` has exited with status 1 in the crawl of the second
\* key, after the crawl of the first returned: both have records, the keys
\* after them have none.
C23_Witness ==
  \E p \in Procs :
    /\ argv[p] = "all"
    /\ pc[p] = "exited"
    /\ exitStatus[p] = {1}
    /\ returned[p] = <<"tinyfruits">>
    /\ todo[p] = <<"fruits100", "fruitsA", "fruitgraph">>
    /\ \E doc \in BagToSet(pages) : doc.dataset = "tinyfruits"
    /\ \E doc \in BagToSet(pages) : doc.dataset = "fruits100"
    /\ \A doc \in BagToSet(pages) : doc.dataset \notin {"fruitsA", "fruitgraph"}

\* Process p is in a call of crawlDataset with a name that is no key of the
\* registry.
CallsUnregistered(p) ==
  /\ pc[p] # "idle"
  /\ todo[p] # <<>>
  /\ Head(todo[p]) \notin DOMAIN DATASETS

\* C24: a call of crawlDataset with an unregistered name never gets past
\* line 47: it throws there, so the process has opened no connection and is
\* at none of the steps that create an index, look a page up, fetch or write.
C24_UnknownDatasetFailsFirst ==
  \A p \in Procs :
    CallsUnregistered(p) =>
      /\ pc[p] \in {"call", "threw", "exited"}
      /\ connects[p] = 0

\* The crawls a command line asks for.
Requested(arg) ==
  IF arg = NoArg THEN <<>> ELSE IF arg = "all" THEN DatasetKeys ELSE <<arg>>

\* Process p ends by itself in this step: process.exit is called.
ExitsItself(p) ==
  /\ pc[p] # "exited"
  /\ pc'[p] = "exited"
  /\ exitStatus'[p] # {Killed}

\* C25: a process that ends by itself ends with status 0 when it was given
\* an argument and every crawl the argument asks for has returned, and with
\* status 1 otherwise (no argument, an unknown dataset, a crawl that threw);
\* the usage line is printed exactly for a missing argument, by a process
\* that exits at once with status 1 and has connected to nothing and called
\* no crawl; and every started process comes to its end.
C25_ExitStatus ==
  /\ [][\A p \in Procs :
          ExitsItself(p) =>
            /\ exitStatus'[p] \in {{0}, {1}}
            /\ exitStatus'[p] = {0} <=>
                 (argv'[p] # NoArg /\ returned'[p] = Requested(argv'[p]))
            /\ pc[p] = "threw" => exitStatus'[p] = {1}]_vars
  /\ [](\A p \in Procs :
          /\ (pc[p] # "idle" /\ argv[p] = NoArg /\ todo[p] = <<>>) <=> usage[p]
          /\ usage[p] =>
               /\ pc[p] = "exited"
               /\ exitStatus[p] = {1}
               /\ connects[p] = 0
               /\ returned[p] = <<>>)
  /\ \A p \in Procs : pc[p] \notin {"idle", "exited"} ~> pc[p] = "exited"

\* C25 witness: a process started without an argument has printed the usage
\* line and exited with status 1, over a store that holds the records of an
\* earlier process.
C25_Witness ==
  \E p \in Procs :
    /\ usage[p]
    /\ exitStatus[p] = {1}
    /\ clock = 1
    /\ pages # EmptyBag

\* The steps of crawlDataset at which a page is looked up, deleted, fetched
\* or written, and the dequeue that leads to them.
CrawlSteps ==
  {"loop", "findOne", "deleteOne", "deleteMany", "fetch", "insertFail", "insertPage",
   "insertEdges"}

\* C26: whenever a run of crawlDataset is at a step that looks up, fetches
\* or writes, its process has connected and both unique indexes exist; and
\* no step before the loop reads or changes a page or edge record.
C26_ConnectedAndIndexedFirst ==
  /\ [](\A p \in Procs :
          pc[p] \in CrawlSteps =>
            /\ connects[p] = 1
            /\ {PagesIndex, LinksIndex} \subseteq indexes)
  /\ [][\A p \in Procs :
          pc[p] \in {"call", "connect", "ensurePages", "ensureLinks"} =>
            pages' = pages /\ links' = links]_vars

\* C26 witness: the first lookup of the first run of a process is pending,
\* with the connection open and both indexes created by that run.
C26_Witness ==
  \E p \in Procs :
    /\ pc[p] = "findOne"
    /\ clock = 1
    /\ dequeues[p] = 1
    /\ connects[p] = 1
    /\ indexes = {PagesIndex, LinksIndex}
    /\ pages = EmptyBag

\* A page record as the crawler means to write it: a success record with
\* its html and no error field, or a failure record with neither html nor
\* links and with the error.
WholeRecord(doc) ==
  \/ ~doc.html.isNull /\ doc.error = Absent
  \/ doc.html.isNull /\ doc.outLinks = <<>> /\ doc.error # Absent

\* The collection after the step is the one before it with one record
\* inserted or one record deleted.
OneRecordWritten(before, after) ==
  \E doc \in BagToSet(before) \cup BagToSet(after) :
    \/ after = before (+) SetToBag({doc})
    \/ after = before (-) SetToBag({doc})

\* C27: every stored page record is a whole success record or a whole
\* failure record in every state, so also in the state a kill leaves behind;
\* and a step that changes the page collection inserts one whole record or
\* deletes one record: no record is changed after its insert.
C27_RecordsAreWhole ==
  /\ [](\A doc \in BagToSet(pages) : WholeRecord(doc))
  /\ [][pages' # pages => OneRecordWritten(pages, pages')]_vars

\* C27 witness: a process was killed in the middle of an iteration, and the
\* store it leaves holds a success record and a failure record.
C27_Witness ==
  \E p \in Procs :
    /\ pc[p] = "exited"
    /\ exitStatus[p] = {Killed}
    /\ cur[p] # NoCur
    /\ \E doc \in BagToSet(pages) : ~doc.html.isNull
    /\ \E doc \in BagToSet(pages) : doc.html.isNull

\* Every run that was started has come to its end.
AllEnded ==
  /\ \A p \in Procs : pc[p] \in {"idle", "done", "exited"}
  /\ \E p \in Procs : pc[p] # "idle"

\* The stored record of (d, u) is a failure record.
FailureAt(d, u) == \E doc \in PagesAt(pages, d, u) : doc.html.isNull

\* Run p has deleted the failure record of the URL it handles and has not
\* yet come to the end of its attempt.
Retrying(p) ==
  /\ pc[p] \in {"deleteMany", "fetch", "insertFail", "insertPage", "insertEdges"}
  /\ cur[p].existing.found

\* Run q is in its attempt for URL u of dataset d.
Attempts(q, d, u) ==
  /\ pc[q] \in {"findOne", "deleteOne", "deleteMany", "fetch", "insertFail", "insertPage",
                "insertEdges"}
  /\ dataset[q] = d
  /\ cur[q].norm = u

\* C28: while one run is between the delete and the reinsert of a URL it
\* retries, no other run of the dataset is in its attempt for that URL; and
\* once all runs have ended, each URL has at most one page record, and a URL
\* whose page record is a failure record has no outgoing edge.
C28_RunsSerializedPerUrl ==
  /\ \A p, q \in Procs :
       (p # q /\ Retrying(p)) => ~Attempts(q, dataset[p], cur[p].norm)
  /\ AllEnded =>
       \A d \in DOMAIN DATASETS :
         \A u \in PageUrls(pages, d) :
           /\ CountAt(pages, d, u) <= 1
           /\ FailureAt(d, u) => EdgesFrom(links, d, u) = {}

\* The operations of a callback that come after the seen check.
PastSeenCheck == {"pass", "upsert", "insertMany"}

\* C29: in a run of the worker-pool crawler, for each canonical URL at most
\* one callback gets past the seen check, at most one upserts its page
\* record and at most one inserts its edges, and no two suspended callbacks
\* handle the same URL.
C29_SeenCheckAndMarkAtomic ==
  /\ \A e \in BagToSet(poolLog) : e.op \in PastSeenCheck => CopiesIn(e, poolLog) <= 1
  /\ \A cb \in BagToSet(callbacks) : CopiesIn(cb, callbacks) = 1
  /\ \A a, b \in BagToSet(callbacks) : a.url = b.url => a = b

\* C29 witness: a run has ended in which a URL was given to c.add twice, so
\* that two callbacks ran for it, and one of them got past the seen check
\* and wrote its record.
C29_Witness ==
  /\ pc["r1"] = "done"
  /\ \E e \in BagToSet(poolLog) :
       /\ e.op = "add"
       /\ CopiesIn(e, poolLog) >= 2
       /\ TimesLogged(poolLog, "pass", e.url) = 1
       /\ TimesLogged(poolLog, "upsert", e.url) = 1
       /\ TimesLogged(poolLog, "insertMany", e.url) = 1

\* C30: in a run of the worker-pool crawler, c.add is called at most once
\* for each canonical URL.
C30_AddedAtMostOnce ==
  \A e \in BagToSet(poolLog) : e.op = "add" => CopiesIn(e, poolLog) <= 1

\* The page records of the current dataset that the current run of the
\* worker-pool crawler has written.
WrittenThisRun(p) ==
  {doc \in BagToSet(pages) :
     /\ doc.dataset = dataset[p]
     /\ doc.fetchedAt = clock
     /\ TimesLogged(poolLog, "upsert", doc.url) >= 1}

\* C31: in the worker-pool crawler, the record a run has written for a URL
\* shows the latest attempt only: a record with html has no error field, and
\* a record of a failed attempt (status 0, no links) has no edge from its
\* URL in the store.
C31_LatestAttemptOnly ==
  \A p \in Procs :
    pc[p] \in {"pool", "done"} =>
      \A doc \in WrittenThisRun(p) :
        /\ ~doc.html.isNull => doc.error = Absent
        /\ (doc.status = 0 /\ doc.outLinks = <<>>) =>
             EdgesFrom(links, doc.dataset, doc.url) = {}

\* The steps at which a callback is suspended: the await of an upsert or of
\* the insertMany.
AwaitSteps == {"upsertFail", "upsertPage", "insertMany"}

\* C32: in the worker-pool crawler every callback that has been invoked and
\* has not called done() is suspended at an await, so none has returned
\* while keeping its connection; the connections in use are the pending
\* requests and those callbacks; and a crawl whose promise is pending
\* settles: by drain when nothing is queued, pending or suspended, or by the
\* rejection of a callback whose store call failed.
C32_DoneOnEveryPath ==
  /\ [](/\ \A cb \in BagToSet(callbacks) : cb.step \in AwaitSteps
        /\ BagCardinality(inflight) + BagCardinality(callbacks) <= maxConnections
        /\ \A p \in Procs :
             pc[p] = "done" => queue[p] = <<>> /\ inflight = EmptyBag /\ callbacks = EmptyBag)
  /\ pc["r1"] = "pool" ~> pc["r1"] \in {"done", "threw"}

\* C32 witness: a run has drained in which a callback was dropped at the
\* seen check (its URL was added twice), one stored a failure record and
\* one stored a page with edges.
C32_Witness ==
  /\ pc["r1"] = "done"
  /\ \E e \in BagToSet(poolLog) : e.op = "add" /\ CopiesIn(e, poolLog) >= 2
  /\ \E e \in BagToSet(poolLog) : e.op = "insertMany"
  /\ \E doc \in BagToSet(pages) : doc.fetchedAt = clock /\ doc.error # Absent

\* C33: when the first run of the primary crawler over an empty store has
\* returned, every stored edge leads to a URL that has a page record of the
\* same dataset.
C33_EdgesLeadToRecords ==
  \A p \in Procs :
    (Returned(p) /\ clock = 1) =>
      \A e \in BagToSet(links) :
        \E doc \in BagToSet(pages) : doc.dataset = e.dataset /\ doc.url = e.to

\* The edges a successful page record calls for: one to each of its
\* outLinks but itself.
EdgesCalledFor(doc) ==
  {[dataset |-> doc.dataset, from |-> doc.url, to |-> to] :
     to \in Range(doc.outLinks) \ {doc.url}}

\* C34: when a rerun of the primary crawler has returned, whatever happened
\* to the processes before it (a kill at any step included), every
\* successful page record of its dataset has exactly the edges its outLinks
\* call for, and every URL in its outLinks has a page record.
C34_RerunRepairs ==
  \A p \in Procs :
    (Returned(p) /\ clock > 1) =>
      \A doc \in BagToSet(pages) :
        (doc.dataset = dataset[p] /\ ~doc.html.isNull) =>
          /\ EdgesFrom(links, doc.dataset, doc.url) = EdgesCalledFor(doc)
          /\ \A to \in Range(doc.outLinks) : PagesAt(pages, doc.dataset, to) # {}

\* C35: in a directory-boundary crawler no stored edge leads from a URL to
\* itself.
C35_NoSelfEdge == \A e \in BagToSet(links) : e.from # e.to

\* C36: in the earliest crawler, a run fetches no URL that had a page record
\* of its dataset, successful or failed, when the run started, and every
\* record stored at that time is still stored, unchanged.
C36_AttemptedIsNeverRefetched ==
  \A p \in Procs :
    Running(p) =>
      /\ \A i \in 1..Len(fetched[p]) : PagesAt(pages0[p], dataset[p], fetched[p][i]) = {}
      /\ \A doc \in BagToSet(pages0[p]) : CopiesIn(doc, pages) = CopiesIn(doc, pages0[p])

\* C36 witness: a second run has returned without a fetch, because the first
\* run left a failure record for the seed.
C36_Witness ==
  \E p \in Procs :
    /\ Returned(p)
    /\ clock = 2
    /\ dequeues[p] >= 1
    /\ fetched[p] = <<>>
    /\ \E doc \in PagesAt(pages, dataset[p], DATASETS[dataset[p]]) :
         doc.html.isNull /\ doc.fetchedAt = 1

\* The calls of fn in a list of calls.
CallsOf(calls, fn) == {i \in 1..Len(calls) : calls[i].fn = fn}

\* The calls of connectDB that returned.
ConnectedAt(calls) == {i \in CallsOf(calls, "connectDB") : calls[i].error = NoThrow}

\* C37: over the sequential calls of a process, client.connect is invoked at
\* most once, and exactly once when a connectDB has returned; every connectDB
\* that returns gives the same handle; a collection accessor called before a
\* connectDB has returned throws 'DB not connected'.
C37_ConnectsOnceAndReuses ==
  \A p \in Procs :
    LET calls == dbCalls[p]
    IN /\ Cardinality(CallsOf(calls, "client.connect")) <= 1
       /\ ConnectedAt(calls) # {} => Cardinality(CallsOf(calls, "client.connect")) = 1
       /\ \A i, j \in ConnectedAt(calls) :
            calls[i].handle = calls[j].handle /\ calls[i].handle # NoDb
       /\ \A i \in 1..Len(calls) :
            (calls[i].fn \in Accessors /\ \A j \in ConnectedAt(calls) : j > i)
              => calls[i].error = "DB not connected"

\* A process called an accessor first and had connectDB return twice.
C37_Witness ==
  \E p \in Procs :
    /\ Len(dbCalls[p]) >= 4
    /\ dbCalls[p][1].fn \in Accessors
    /\ Cardinality(ConnectedAt(dbCalls[p])) >= 2

\* What the lines of a body order of a product, in all.
RECURSIVE Ordered(_, _)
Ordered(items, product) ==
  IF items = <<>>
    THEN 0
    ELSE Ordered(Tail(items), product)
         + (IF ObjectId(Head(items).productId) = product THEN Head(items).quantity ELSE 0)

\* No stock is negative.
StockNeverNegative == \A product \in Products : stock[product] >= 0

\* C38: the stock of a product is never negative, and an order decrements a
\* product only when its stock is, at the moment of the update, at least
\* what the lines of the order ask of the product in all.
C38_DecrementedOnlyWhenEnough ==
  /\ []StockNeverNegative
  /\ [][\A r \in Requests, product \in Products :
          req'[r].taken[product] > req[r].taken[product]
            => stock[product] >= Ordered(req[r].body.items, product)]_vars

\* The orders a request created.
OrdersBy(r) == {k \in 1..Len(orders) : orders[k].by = r}

\* C39: a request answered 409 has decremented no stock and created no
\* order; a request answered 201 has decremented every product by what its
\* lines ask of it in all and has created exactly one order.
C39_AllOrNothing ==
  \A r \in Requests :
    /\ req[r].status = 409 =>
         /\ \A product \in Products : req[r].taken[product] = 0
         /\ OrdersBy(r) = {}
    /\ req[r].status = 201 =>
         /\ \A product \in Products : req[r].taken[product] = Ordered(req[r].body.items, product)
         /\ Cardinality(OrdersBy(r)) = 1

\* What the lines of a body of the in-memory service order of a product.
RECURSIVE OrderedInMemory(_, _)
OrderedInMemory(items, product) ==
  IF items = <<>>
    THEN 0
    ELSE OrderedInMemory(Tail(items), product)
         + (IF findProductById(Head(items).productId) = product THEN Head(items).quantity ELSE 0)

\* The in-memory service is all-or-nothing, step by step: a 409 changes no
\* stock and adds no order; a 201 takes from every product what the lines ask
\* of it and adds one order.
InMemoryAllOrNothing ==
  [][\A r \in Requests :
       req'[r] # req[r] =>
         /\ req'[r].status = 409 => stock' = stock /\ orders' = orders
         /\ req'[r].status = 201 =>
              /\ \A product \in Products :
                   stock'[product] = stock[product] - OrderedInMemory(req'[r].body.items, product)
              /\ Len(orders') = Len(orders) + 1]_vars

====
